---- MODULE Spec2Model ----
(***************************************************************************)
(* A model of the schedule constraint engine and interaction state machine *)
(* of src/ical.py: DayView (interval store, placement, snapping, box       *)
(* selection, group move), EventWidget (single-block gestures) and the     *)
(* history log of MainWindow.                                              *)
(*                                                                         *)
(* Pointer events carry a y coordinate in DayView pixels.  The global      *)
(* coordinate the code reads (e.globalPosition().y()) differs from it by   *)
(* the view's origin, which cancels in every delta the code computes and   *)
(* which mapFromGlobal removes again.                                      *)
(***************************************************************************)
EXTENDS Integers, Sequences, FiniteSets, TLC

----------------------------------------------------------------------------
(* Program constants *)

DayMinutes == 1440
BASE_PX_PER_MIN == 3
top_pad == 16
HANDLE == 6
MinWidgetHeight == 10
_history_max == 11
SnapThresholdPixels == 30
NowThresholdPixels == 40
SmartScaleMaxAttempts == 1000
zoom_percent == 100
None == -1

(* The values offered by the "Time Size" combo box. *)
TimeSizeChoices == {1, 2, 3, 4, 5, 6, 7, 8, 9, 10, 22, 24, 30, 60}

----------------------------------------------------------------------------
(* Arithmetic helpers *)

Max(a, b) == IF a >= b THEN a ELSE b
Min(a, b) == IF a <= b THEN a ELSE b
Abs(a) == IF a >= 0 THEN a ELSE 0 - a

(* Python's round(a / b) for integers a and b > 0: nearest integer, exact *)
(* ties to the even neighbour.                                            *)
PyRoundDiv(a, b) ==
    LET q == a \div b
        r == a % b
    IN  IF 2 * r < b THEN q
        ELSE IF 2 * r > b THEN q + 1
        ELSE IF q % 2 = 0 THEN q ELSE q + 1

(* px_per_min = BASE_PX_PER_MIN * zoom_percent / 100, kept as the pair    *)
(* numerator / denominator so that pixel conversions stay exact.          *)
PxNum == BASE_PX_PER_MIN * zoom_percent
PxDen == 100

minute_to_y(minute) == ((minute * PxNum) \div PxDen) + top_pad

y_to_minute(y) ==
    Max(0, Min(DayMinutes, PyRoundDiv((y - top_pad) * PxDen, PxNum)))

_minutes_from_pixels(pixels) == Max(1, PyRoundDiv(pixels * PxDen, PxNum))

_snap_threshold_minutes == _minutes_from_pixels(SnapThresholdPixels)

----------------------------------------------------------------------------
(* SnapEngine: grid snapping.  step is DayView.snap_step().               *)

snap_step_of(size, enabled) == IF enabled THEN size ELSE 1

(* The multiple of step next above the minute, kept inside the day. *)
snap_minute_above(minute, step) ==
    Max(0, Min(DayMinutes, ((minute \div step) + 1) * step))

snap_minute_with(minute, step) ==
    IF step <= 1
    THEN Max(0, Min(DayMinutes, minute))
    ELSE Max(0, Min(DayMinutes, PyRoundDiv(minute, step) * step))

(* snap_delta applied to delta_px / px_per_min. *)
snap_delta_px(delta_px, step) ==
    IF step <= 1
    THEN PyRoundDiv(delta_px * PxDen, PxNum)
    ELSE PyRoundDiv(delta_px * PxDen, PxNum * step) * step

----------------------------------------------------------------------------
(* IntervalStore queries.  ws is DayView.event_widgets, a sequence of     *)
(* widget records; excl is a set of widget ids.                           *)

RangesOverlap(s1, e1, s2, e2) == Max(s1, s2) < Min(e1, e2)

overlaps_range(ws, start_min, end_min, excl) ==
    \E i \in 1..Len(ws) :
        /\ ws[i].id \notin excl
        /\ RangesOverlap(start_min, end_min, ws[i].start_min, ws[i].end_min)

(* Index of the first widget in list order that conflicts, 0 if none. *)
FirstConflict(ws, start, duration, excl) ==
    LET hits == {i \in 1..Len(ws) :
                    /\ ws[i].id \notin excl
                    /\ RangesOverlap(start, start + duration,
                                     ws[i].start_min, ws[i].end_min)}
    IN  IF hits = {} THEN 0 ELSE CHOOSE i \in hits : \A j \in hits : i <= j

(* A start kept at or above minute 0 only. *)
ClampToDayStart(start, duration) == Max(0, start)

ClampToDay(start, duration) == Max(0, Min(start, DayMinutes - duration))

(* The candidate chosen for direction = 0: candidates.sort() orders the   *)
(* (distance, start) pairs lexicographically and the first one is taken.  *)
NearestCandidate(start, duration, conflict) ==
    LET down == conflict.end_min
        up == conflict.start_min - duration
        downOk == 0 <= down /\ down <= DayMinutes - duration
        upOk == up >= 0 /\ up <= DayMinutes - duration
        dDown == Abs(down - start)
        dUp == Abs(up - start)
    IN  IF downOk /\ upOk
        THEN IF dDown < dUp \/ (dDown = dUp /\ down <= up) THEN down ELSE up
        ELSE IF downOk THEN down
        ELSE IF upOk THEN up
        ELSE None

(* A pass that goes one minute past the end of the conflict when the      *)
(* direction is forward.                                                  *)
ClampNextPastEnd(ws, start, duration, direction, c) ==
    IF direction > 0 THEN ws[c].end_min + 1
    ELSE IF direction < 0 THEN ws[c].start_min - duration
    ELSE NearestCandidate(start, duration, ws[c])

(* One pass of the loop once the first conflict c is known (0: none). *)
ClampNext(ws, start, duration, direction, c) ==
    IF direction > 0 THEN ws[c].end_min
    ELSE IF direction < 0 THEN ws[c].start_min - duration
    ELSE NearestCandidate(start, duration, ws[c])

RECURSIVE ClampLoop(_, _, _, _, _, _)
ClampLoop(ws, start, duration, excl, direction, iters) ==
    IF iters = 0 THEN None
    ELSE IF FirstConflict(ws, start, duration, excl) = 0 THEN start
    ELSE IF direction = 0 /\
            ClampNext(ws, start, duration, direction,
                      FirstConflict(ws, start, duration, excl)) = None
    THEN None
    ELSE ClampLoop(ws,
                   ClampToDay(ClampNext(ws, start, duration, direction,
                                        FirstConflict(ws, start, duration, excl)),
                              duration),
                   duration, excl, direction, iters - 1)

clamp_start_to_available(ws, start, duration, excl, direction) ==
    LET d == Max(1, duration)
    IN  ClampLoop(ws, ClampToDay(start, d), d, excl, direction, Len(ws) + 1)

----------------------------------------------------------------------------
(* State *)

VARIABLES
    event_widgets,            \* DayView.event_widgets: sequence of widget records
    time_size_minutes,        \* DayView.time_size_minutes (the chunk)
    snap_enabled,             \* DayView.snap_enabled
    smart_scale_enabled,      \* DayView.smart_scale_enabled
    magnetic_mode,            \* DayView.magnetic_mode
    show_now_line,            \* DayView.show_now_line
    box_select_mode,          \* DayView.box_select_mode
    _box_selecting,           \* DayView._box_selecting
    _box_select_origin,       \* DayView._box_select_origin (y), None when unset
    _box_selected_widgets,    \* DayView._box_selected_widgets: set of widget ids
    _group_move_active,       \* DayView._group_move_active
    _group_move_start_global, \* DayView._group_move_start_global
    _group_move_last_delta,   \* DayView._group_move_last_delta
    _group_move_refs,         \* DayView._group_move_refs: set of [id, start, end]
    _group_move_selected,     \* DayView._group_move_selected: set of widget ids
    prefs_magnetic_mode,      \* MainWindow.prefs.magnetic_mode
    prefs_smart_scale_enabled,\* MainWindow.prefs.smart_scale_enabled
    events_by_date,           \* MainWindow.events_by_date: date -> sequence of events
    repeat_rules,             \* MainWindow.repeat_rules: sequence of rule records
    current_date,             \* MainWindow.current_date
    _history,                 \* MainWindow._history: sequence of snapshots
    _history_index,           \* MainWindow._history_index (0-based, -1 when empty)
    _pending_history_action,  \* MainWindow._pending_history_action, "" for None
    mouse_grab,               \* the receiver of move/release events while a button
                              \* is held: [kind: "none" | "view" | "widget", id]
    last_op,                  \* the handler that ran last and what it did
    probe                     \* inputs and results of the pure-function runs

vars == <<event_widgets, time_size_minutes, snap_enabled, smart_scale_enabled,
          magnetic_mode, show_now_line, box_select_mode, _box_selecting,
          _box_select_origin, _box_selected_widgets, _group_move_active,
          _group_move_start_global, _group_move_last_delta, _group_move_refs,
          _group_move_selected, prefs_magnetic_mode, prefs_smart_scale_enabled,
          events_by_date, repeat_rules, current_date, _history, _history_index,
          _pending_history_action, mouse_grab, last_op, probe>>

(* The program state as one record, so that a handler that calls other    *)
(* handlers in sequence is the composition of their state transformers.   *)
State ==
    [event_widgets |-> event_widgets,
     time_size_minutes |-> time_size_minutes,
     snap_enabled |-> snap_enabled,
     smart_scale_enabled |-> smart_scale_enabled,
     magnetic_mode |-> magnetic_mode,
     show_now_line |-> show_now_line,
     box_select_mode |-> box_select_mode,
     _box_selecting |-> _box_selecting,
     _box_select_origin |-> _box_select_origin,
     _box_selected_widgets |-> _box_selected_widgets,
     _group_move_active |-> _group_move_active,
     _group_move_start_global |-> _group_move_start_global,
     _group_move_last_delta |-> _group_move_last_delta,
     _group_move_refs |-> _group_move_refs,
     _group_move_selected |-> _group_move_selected,
     prefs_magnetic_mode |-> prefs_magnetic_mode,
     prefs_smart_scale_enabled |-> prefs_smart_scale_enabled,
     events_by_date |-> events_by_date,
     repeat_rules |-> repeat_rules,
     current_date |-> current_date,
     _history |-> _history,
     _history_index |-> _history_index,
     _pending_history_action |-> _pending_history_action,
     mouse_grab |-> mouse_grab,
     last_op |-> last_op]

CommitFields(s) ==
    /\ event_widgets' = s.event_widgets
    /\ time_size_minutes' = s.time_size_minutes
    /\ snap_enabled' = s.snap_enabled
    /\ smart_scale_enabled' = s.smart_scale_enabled
    /\ magnetic_mode' = s.magnetic_mode
    /\ show_now_line' = s.show_now_line
    /\ box_select_mode' = s.box_select_mode
    /\ _box_selecting' = s._box_selecting
    /\ _box_select_origin' = s._box_select_origin
    /\ _box_selected_widgets' = s._box_selected_widgets
    /\ _group_move_active' = s._group_move_active
    /\ _group_move_start_global' = s._group_move_start_global
    /\ _group_move_last_delta' = s._group_move_last_delta
    /\ _group_move_refs' = s._group_move_refs
    /\ _group_move_selected' = s._group_move_selected
    /\ prefs_magnetic_mode' = s.prefs_magnetic_mode
    /\ prefs_smart_scale_enabled' = s.prefs_smart_scale_enabled
    /\ events_by_date' = s.events_by_date
    /\ repeat_rules' = s.repeat_rules
    /\ current_date' = s.current_date
    /\ _history' = s._history
    /\ _history_index' = s._history_index
    /\ _pending_history_action' = s._pending_history_action
    /\ mouse_grab' = s.mouse_grab
    /\ last_op' = s.last_op

Commit(s) == CommitFields(s) /\ UNCHANGED probe

(* The same for a run of one method of DayView: the fields become those   *)
(* of s, and p keeps the arguments and the return value of the call.      *)
CommitCall(s, p) == CommitFields(s) /\ probe' = p

----------------------------------------------------------------------------
(* Widgets *)

(* EventWidget.__init__ *)
EventWidget(id, start_min, end_min, from_rule, rule_id, locked) ==
    LET st == Max(0, Min(start_min, DayMinutes - 1))
        en == Max(st + 1, Min(end_min, DayMinutes))
    IN  [id |-> id, start_min |-> st, end_min |-> en,
         from_rule |-> from_rule, rule_id |-> rule_id, locked |-> locked,
         drag_mode |-> "none", press_global_y |-> 0,
         orig_start |-> st, orig_end |-> en,
         orig_duration |-> Max(1, en - st),
         group_dragging |-> FALSE]

WidgetIds(ws) == {ws[i].id : i \in 1..Len(ws)}

IndexOfId(ws, id) == CHOOSE i \in 1..Len(ws) : ws[i].id = id

(* Object identity: a new widget is distinct from every live widget and   *)
(* from every widget some reference still names.                          *)
ReferencedIds(s) ==
    WidgetIds(s.event_widgets) \cup s._group_move_selected
        \cup {r.id : r \in s._group_move_refs}

FreshId(s) ==
    LET used == ReferencedIds(s)
    IN  CHOOSE n \in 1..(Cardinality(used) + 1) :
            n \notin used /\ \A m \in 1..(n - 1) : m \in used

NoGrab == [kind |-> "none", id |-> 0]
ViewGrab == [kind |-> "view", id |-> 0]
WidgetGrab(id) == [kind |-> "widget", id |-> id]

(* EventWidget.update_geometry: the pixel rows a widget covers. *)
WidgetTop(w) == minute_to_y(w.start_min)
WidgetHeight(w) == Max(MinWidgetHeight, minute_to_y(w.end_min) - WidgetTop(w))
GeometryContains(w, y) == WidgetTop(w) <= y /\ y < WidgetTop(w) + WidgetHeight(w)

(* WA_TransparentForMouseEvents as _refresh_widget_transparency leaves it. *)
MouseTransparent(s, w) ==
    s.box_select_mode /\ w.id \notin s._box_selected_widgets

(* DayView._refresh_widget_transparency: set_mouse_transparent(True) also *)
(* clears the widget's _group_dragging.                                   *)
_refresh_widget_transparency(s) ==
    IF ~s.box_select_mode THEN s
    ELSE [s EXCEPT !.event_widgets =
            [i \in 1..Len(@) |->
                IF @[i].id \in s._box_selected_widgets THEN @[i]
                ELSE [@[i] EXCEPT !.group_dragging = FALSE]]]

(* DayView._update_box_selection followed by _notify_box_selection_changed *)
_update_box_selection(s, new_selection) ==
    IF new_selection = s._box_selected_widgets THEN s
    ELSE _refresh_widget_transparency(
            [s EXCEPT !._box_selected_widgets = new_selection])

----------------------------------------------------------------------------
(* Persistence and history (MainWindow) *)

EventOf(w) == [start_min |-> w.start_min, end_min |-> w.end_min,
               locked |-> w.locked]

(* The day's data if save_day kept the rule instances as well. *)
SavedWithRules(ws) == [i \in 1..Len(ws) |-> EventOf(ws[i])]

RECURSIVE SavedEvents(_)
SavedEvents(ws) ==
    IF ws = <<>> THEN <<>>
    ELSE IF Head(ws).from_rule THEN SavedEvents(Tail(ws))
    ELSE <<EventOf(Head(ws))>> \o SavedEvents(Tail(ws))

(* MainWindow.save_day(self.current_date) *)
save_day(s) ==
    [s EXCEPT !.events_by_date[s.current_date] = SavedEvents(s.event_widgets)]

(* MainWindow._history_snapshot().  The timestamp is left out: nothing    *)
(* reads it back.                                                         *)
_history_snapshot(s, action) ==
    [date |-> s.current_date, events |-> s.events_by_date[s.current_date],
     action |-> action]

(* MainWindow._reset_history *)
_reset_history(s) ==
    [s EXCEPT !._history = <<_history_snapshot(s, "Initial load")>>,
              !._history_index = 0,
              !._pending_history_action = ""]

(* MainWindow.note_history_action *)
note_history_action(s, action) ==
    IF action # "" THEN [s EXCEPT !._pending_history_action = action] ELSE s

(* The log with the entries after the cursor left as they are. *)
KeepAfterCursor(log, idx) == log

(* _record_history: the entries after the cursor are discarded. *)
TruncateAfterCursor(log, idx) ==
    IF idx < Len(log) - 1 THEN SubSeq(log, 1, idx + 1) ELSE log

(* The oldest entries dropped with the cursor left where it is. *)
TrimKeepingCursor(s, appended, idx) ==
    [s EXCEPT !._history = SubSeq(appended,
                                  Max(0, Len(appended) - _history_max) + 1,
                                  Len(appended)),
              !._history_index = idx]

(* _record_history: the log is cut to _history_max entries from the       *)
(* front and the cursor shifted by the number of entries removed.         *)
TrimOldest(s, appended, idx) ==
    IF Len(appended) > _history_max
    THEN [s EXCEPT !._history =
                        SubSeq(appended, Len(appended) - _history_max + 1,
                               Len(appended)),
                   !._history_index =
                        Max(0, idx - (Len(appended) - _history_max))]
    ELSE [s EXCEPT !._history = appended, !._history_index = idx]

(* The snapshot appended whatever the entry at the cursor holds. *)
RecordAlways(s, snap) ==
    TrimOldest([s EXCEPT !._pending_history_action = ""],
               Append(TruncateAfterCursor(s._history, s._history_index), snap),
               s._history_index + 1)

(* _record_history once the snapshot snap has been taken. *)
RecordSnapshot(s, snap) ==
    IF /\ s._history_index >= 0 /\ s._history # <<>>
       /\ snap.events = s._history[s._history_index + 1].events
    THEN [s EXCEPT !._pending_history_action = ""]
    ELSE TrimOldest([s EXCEPT !._pending_history_action = ""],
                    Append(TruncateAfterCursor(s._history, s._history_index),
                           snap),
                    s._history_index + 1)

(* MainWindow._record_history.  _history_freeze is set only while          *)
(* _apply_history_snapshot runs, which never reaches this method.         *)
_record_history(s) ==
    RecordSnapshot(s, _history_snapshot(s, IF s._pending_history_action # ""
                                           THEN s._pending_history_action
                                           ELSE "Change"))

(* MainWindow.on_day_changed *)
on_day_changed(s) == _record_history(save_day(s))

----------------------------------------------------------------------------
(* DayView.add_block, DayView.delete_block, MainWindow.load_day *)

(* The checks add_block makes on the start that placement returned. *)
CheckedStart(ws, cand, d) ==
    IF cand = None THEN None
    ELSE IF overlaps_range(ws, cand, cand + d, {}) THEN None
    ELSE cand

(* The requested start, clamped to the day, whatever the store holds. *)
RequestedStart(ws, start_min, duration_min) ==
    ClampToDay(start_min, Max(1, duration_min))

(* The start add_block settles on, None when it creates nothing. *)
AddBlockStart(ws, start_min, duration_min) ==
    CheckedStart(ws,
                 clamp_start_to_available(ws, start_min, Max(1, duration_min),
                                          {}, 0),
                 Max(1, duration_min))

(* The tail of add_block: the widget is built and appended at start st. *)
AppendBlock(s, st, d, from_rule, rule_id, locked, record_history) ==
    IF st = None THEN s
    ELSE note_history_action(
            _refresh_widget_transparency(
                [s EXCEPT !.event_widgets =
                    Append(@, EventWidget(FreshId(s), st, st + d,
                                          from_rule, rule_id, locked))]),
            IF record_history THEN "Add block" ELSE "")

add_block(s, start_min, duration_min, from_rule, rule_id, locked, record_history) ==
    AppendBlock(s, AddBlockStart(s.event_widgets, start_min, duration_min),
                Max(1, duration_min), from_rule, rule_id, locked, record_history)

(* DayView.delete_block *)
delete_block(s, id) ==
    IF id \notin WidgetIds(s.event_widgets) THEN s
    ELSE LET i == IndexOfId(s.event_widgets, id)
         IN  IF s.event_widgets[i].locked THEN s
             ELSE LET s1 == note_history_action(s, "Delete block")
                      s2 == IF id \in s1._box_selected_widgets
                            THEN _update_box_selection(
                                    s1, s1._box_selected_widgets \ {id})
                            ELSE s1
                      s3 == [s2 EXCEPT !.event_widgets =
                                SelectSeq(@, LAMBDA w : w.id # id),
                                       !.mouse_grab =
                                IF @ = WidgetGrab(id) THEN NoGrab ELSE @]
                  IN  _refresh_widget_transparency(on_day_changed(s3))

(* sorted(items, key=start_min): a stable sort. *)
RECURSIVE InsertByStart(_, _)
InsertByStart(sorted, item) ==
    IF sorted = <<>> THEN <<item>>
    ELSE IF item.start_min < Head(sorted).start_min THEN <<item>> \o sorted
    ELSE <<Head(sorted)>> \o InsertByStart(Tail(sorted), item)

RECURSIVE SortedByStart(_)
SortedByStart(items) ==
    IF items = <<>> THEN <<>>
    ELSE InsertByStart(SortedByStart(SubSeq(items, 1, Len(items) - 1)),
                       items[Len(items)])

RECURSIVE LoadDated(_, _)
LoadDated(s, items) ==
    IF items = <<>> THEN s
    ELSE LoadDated(add_block(s, Head(items).start_min,
                             Head(items).end_min - Head(items).start_min,
                             FALSE, 0, Head(items).locked, FALSE),
                   Tail(items))

RECURSIVE LoadRules(_, _)
LoadRules(s, rules) ==
    IF rules = <<>> THEN s
    ELSE LoadRules(add_block(s, Head(rules).start_min,
                             Head(rules).end_min - Head(rules).start_min,
                             TRUE, Head(rules).id, Head(rules).locked, FALSE),
                   Tail(rules))

(* DayView.clear_blocks: the widgets are deleted, so a widget that held   *)
(* the mouse loses it.                                                    *)
ForgetWidgets(s) ==
    [s EXCEPT !.event_widgets = <<>>,
              !.mouse_grab = IF @.kind = "widget" THEN NoGrab ELSE @]

(* The widgets cleared with the selection left as it is. *)
ClearKeepingSelection(s) == ForgetWidgets(s)

clear_blocks(s) == ForgetWidgets(_update_box_selection(s, {}))

(* MainWindow.load_day(self.current_date, reset_history) *)
LoadDatedOf(s) ==
    LoadDated(s, SortedByStart(s.events_by_date[s.current_date]))

LoadRulesOf(s) == LoadRules(s, s.repeat_rules)

ResetHistoryIf(s, reset_history) ==
    IF reset_history THEN _reset_history(s) ELSE s

load_day(s, reset_history) ==
    ResetHistoryIf(LoadRulesOf(LoadDatedOf(clear_blocks(s))), reset_history)

(* MainWindow._apply_history_snapshot: every snapshot of the log is of    *)
(* the current date, because load_day resets the log on a day change.     *)
_apply_history_snapshot(s, snapshot) ==
    load_day([s EXCEPT !.events_by_date[snapshot.date] = snapshot.events,
                       !.current_date = snapshot.date],
             FALSE)

----------------------------------------------------------------------------
(* SnapEngine: magnetic snapping.  now is the current time in minutes,    *)
(* read from the clock when the now line is shown.                        *)

NoBest == [has |-> FALSE, start |-> 0, end |-> 0, diff |-> 0]
Best(st, en, diff) == [has |-> TRUE, start |-> st, end |-> en, diff |-> diff]
Better(best, diff) == ~best.has \/ diff < best.diff

(* The now line offered as a candidate wherever it is. *)
NowLineUnchecked(s, now, start_min, duration, excl) ==
    IF ~(s.magnetic_mode /\ s.show_now_line) THEN NoBest
    ELSE Best(now, now + duration, Abs(start_min - now))

(* DayView._now_line_snap_candidate *)
_now_line_snap_candidate(s, now, start_min, duration, excl) ==
    IF ~(s.magnetic_mode /\ s.show_now_line) THEN NoBest
    ELSE LET diff == Abs(start_min - now)
             threshold == _minutes_from_pixels(NowThresholdPixels)
         IN  IF diff > threshold THEN NoBest
             ELSE IF now + duration > DayMinutes THEN NoBest
             ELSE IF overlaps_range(s.event_widgets, now, now + duration, excl)
                  THEN NoBest
             ELSE Best(now, now + duration, diff)

(* The loop of snap_block_to_neighbors over event_widgets, from index i.  *)
(* lock_start and lock_end keep their default False at every call site.   *)
RECURSIVE SnapNeighborsLoop(_, _, _, _, _, _, _)
SnapNeighborsLoop(ws, i, block, allow_start, allow_end, duration, best) ==
    IF i > Len(ws) THEN best
    ELSE IF ws[i].id = block.id
         THEN SnapNeighborsLoop(ws, i + 1, block, allow_start, allow_end,
                                duration, best)
    ELSE LET ev == ws[i]
             threshold == _snap_threshold_minutes
             dS == Abs(block.start_min - ev.end_min)
             b1 == IF /\ allow_start
                      /\ dS <= threshold
                      /\ ev.end_min + duration <= DayMinutes
                      /\ ~overlaps_range(ws, ev.end_min, ev.end_min + duration,
                                         {block.id})
                      /\ Better(best, dS)
                   THEN Best(ev.end_min, ev.end_min + duration, dS)
                   ELSE best
             dE == Abs(block.end_min - ev.start_min)
             b2 == IF /\ allow_end
                      /\ dE <= threshold
                      /\ ev.start_min - duration >= 0
                      /\ ~overlaps_range(ws, ev.start_min - duration,
                                         ev.start_min, {block.id})
                      /\ Better(b1, dE)
                   THEN Best(ev.start_min - duration, ev.start_min, dE)
                   ELSE b1
         IN  SnapNeighborsLoop(ws, i + 1, block, allow_start, allow_end,
                               duration, b2)

(* The position snap_block_to_neighbors chooses for the block, NoBest     *)
(* when it returns False.                                                 *)
BetterOf(best, other) ==
    IF other.has /\ Better(best, other.diff) THEN other ELSE best

SnapChoiceFor(s, block, allow_start, allow_end, now) ==
    BetterOf(SnapNeighborsLoop(s.event_widgets, 1, block, allow_start,
                               allow_end,
                               Max(1, block.end_min - block.start_min), NoBest),
             IF allow_start
             THEN _now_line_snap_candidate(
                     s, now, block.start_min,
                     Max(1, block.end_min - block.start_min), {block.id})
             ELSE NoBest)

SnapChoice(s, id, allow_start, allow_end, now) ==
    IF id \notin WidgetIds(s.event_widgets) \/ ~s.magnetic_mode THEN NoBest
    ELSE SnapChoiceFor(s, s.event_widgets[IndexOfId(s.event_widgets, id)],
                       allow_start, allow_end, now)

(* DayView.snap_block_to_neighbors *)
MoveTo(s, id, c) ==
    IF ~c.has THEN s
    ELSE [s EXCEPT !.event_widgets[IndexOfId(s.event_widgets, id)] =
            [@ EXCEPT !.start_min = c.start, !.end_min = c.end]]

snap_block_to_neighbors(s, id, allow_start, allow_end, now) ==
    MoveTo(s, id, SnapChoice(s, id, allow_start, allow_end, now))

(* The loop of _suggest_start_for_creation; best.start is best_start.     *)
RECURSIVE SuggestLoop(_, _, _, _, _)
SuggestLoop(ws, i, start_min, duration, best) ==
    IF i > Len(ws) THEN best
    ELSE LET ev == ws[i]
             threshold == _snap_threshold_minutes
             cA == ev.end_min
             dA == Abs(start_min - cA)
             b1 == IF /\ cA <= start_min
                      /\ dA <= threshold
                      /\ cA + duration <= DayMinutes
                      /\ ~overlaps_range(ws, cA, cA + duration, {})
                      /\ Better(best, dA)
                   THEN Best(cA, cA + duration, dA)
                   ELSE best
             cB == ev.start_min - duration
             dB == Abs(start_min - cB)
             b2 == IF /\ cB >= 0
                      /\ dB <= threshold
                      /\ cB + duration <= ev.start_min
                      /\ ~overlaps_range(ws, cB, cB + duration, {})
                      /\ Better(b1, dB)
                   THEN Best(cB, cB + duration, dB)
                   ELSE b1
         IN  SuggestLoop(ws, i + 1, start_min, duration, b2)

(* DayView._suggest_start_for_creation *)
_suggest_start_for_creation(s, start_min, duration) ==
    IF ~s.magnetic_mode THEN start_min
    ELSE LET best == SuggestLoop(s.event_widgets, 1, start_min, duration, NoBest)
         IN  IF best.has THEN best.start ELSE start_min

----------------------------------------------------------------------------
(* Smart-scale resize (EventWidget) *)

SetWidget(s, id, w) ==
    [s EXCEPT !.event_widgets[IndexOfId(s.event_widgets, id)] = w]

_base_chunk(s) == Max(1, s.time_size_minutes)

(* The while loop of _smart_scale_resize_bottom; yields the duration it   *)
(* leaves.  An iteration that leaves the clamped duration where it was    *)
(* repeats unchanged until attempts reaches SmartScaleMaxAttempts, and    *)
(* the loop then ends with the unclamped value of that iteration.         *)
RECURSIVE SmartBottomLoop(_, _, _, _, _, _, _)
SmartBottomLoop(ws, w, chunk, max_duration, direction, duration, attempts) ==
    IF attempts >= SmartScaleMaxAttempts THEN duration
    ELSE LET d == Max(chunk, Min(duration, max_duration))
             new_end == w.orig_start + d
             again(raw) ==
                IF Max(chunk, Min(raw, max_duration)) = d THEN raw
                ELSE SmartBottomLoop(ws, w, chunk, max_duration, direction,
                                     raw, attempts + 1)
         IN  IF new_end > DayMinutes THEN again(d - chunk)
             ELSE IF ~overlaps_range(ws, w.orig_start, new_end, {w.id}) THEN d
             ELSE LET d2 == IF direction >= 0 THEN d - chunk ELSE d + chunk
                  IN  IF d2 < chunk THEN chunk ELSE again(d2)

(* EventWidget._smart_scale_resize_bottom *)
_smart_scale_resize_bottom(s, id, minute_at_cursor) ==
    LET ws == s.event_widgets
        w == ws[IndexOfId(ws, id)]
        chunk == _base_chunk(s)
        m == Max(w.orig_start + chunk, Min(minute_at_cursor, DayMinutes))
        delta == m - w.orig_end
        steps == delta \div chunk
        fit == ((DayMinutes - w.orig_start) \div chunk) * chunk
        max_duration == Max(chunk, IF fit = 0 THEN chunk ELSE fit)
        target_duration ==
            Max(chunk, Min(Max(chunk, w.orig_duration + steps * chunk),
                           max_duration))
        direction == IF target_duration >= w.orig_duration THEN 1 ELSE -1
        duration == SmartBottomLoop(ws, w, chunk, max_duration, direction,
                                    target_duration, 0)
    IN  SetWidget(s, id,
            [w EXCEPT !.start_min = w.orig_start,
                      !.end_min = Min(DayMinutes, w.orig_start + duration)])

RECURSIVE SmartTopLoop(_, _, _, _, _, _, _)
SmartTopLoop(ws, w, chunk, max_duration, direction, duration, attempts) ==
    IF attempts >= SmartScaleMaxAttempts THEN duration
    ELSE LET d == Max(chunk, Min(duration, max_duration))
             new_start == w.orig_end - d
             again(raw) ==
                IF Max(chunk, Min(raw, max_duration)) = d THEN raw
                ELSE SmartTopLoop(ws, w, chunk, max_duration, direction,
                                  raw, attempts + 1)
         IN  IF new_start < 0 THEN again(d - chunk)
             ELSE IF ~overlaps_range(ws, new_start, w.orig_end, {w.id}) THEN d
             ELSE LET d2 == IF direction >= 0 THEN d - chunk ELSE d + chunk
                  IN  IF d2 < chunk THEN chunk ELSE again(d2)

(* EventWidget._smart_scale_resize_top *)
_smart_scale_resize_top(s, id, minute_at_cursor) ==
    LET ws == s.event_widgets
        w == ws[IndexOfId(ws, id)]
        chunk == _base_chunk(s)
        m == Max(0, Min(minute_at_cursor, w.orig_end - chunk))
        delta == w.orig_start - m
        steps == delta \div chunk
        fit == (w.orig_end \div chunk) * chunk
        max_duration == Max(chunk, IF fit = 0 THEN chunk ELSE fit)
        target_duration ==
            Max(chunk, Min(Max(chunk, w.orig_duration + steps * chunk),
                           max_duration))
        direction == IF target_duration >= w.orig_duration THEN 1 ELSE -1
        duration == SmartTopLoop(ws, w, chunk, max_duration, direction,
                                 target_duration, 0)
    IN  SetWidget(s, id,
            [w EXCEPT !.start_min = Max(0, w.orig_end - duration),
                      !.end_min = w.orig_end])

----------------------------------------------------------------------------
(* Group move (DayView) *)

(* A group move allowed whenever something is selected. *)
StartsWithAnySelection(s) == s._box_selected_widgets # {}

(* DayView._start_group_move; StartsGroupMove is its return value. *)
StartsGroupMove(s) ==
    /\ s._box_selected_widgets # {}
    /\ ~\E i \in 1..Len(s.event_widgets) :
            /\ s.event_widgets[i].id \in s._box_selected_widgets
            /\ s.event_widgets[i].locked

_start_group_move(s, start_global_y) ==
    IF ~StartsGroupMove(s) THEN s
    ELSE [s EXCEPT
            !._group_move_active = TRUE,
            !._group_move_start_global = start_global_y,
            !._group_move_last_delta = 0,
            !._group_move_refs =
                {[id |-> s.event_widgets[i].id,
                  start |-> s.event_widgets[i].start_min,
                  end |-> s.event_widgets[i].end_min] :
                    i \in {j \in 1..Len(s.event_widgets) :
                            s.event_widgets[j].id \in s._box_selected_widgets}},
            !._group_move_selected = s._box_selected_widgets,
            !._box_selecting = FALSE]

(* No test of the shifted members against the rest of the store. *)
GroupOverlapsNothing(s, delta_minutes) == FALSE

(* _update_group_move: some member, shifted by delta_minutes, overlaps a  *)
(* widget outside the selection.                                          *)
GroupOverlaps(s, delta_minutes) ==
    \E r \in s._group_move_refs :
        overlaps_range(s.event_widgets, r.start + delta_minutes,
                       r.end + delta_minutes, s._group_move_selected)

(* DayView._update_group_move.  A reference to a widget that is no longer *)
(* in event_widgets still names the deleted object: writing to it leaves  *)
(* the store alone.                                                       *)
_update_group_move(s, current_global_y) ==
    IF ~s._group_move_active THEN s
    ELSE LET delta_px == current_global_y - s._group_move_start_global
             delta_minutes ==
                snap_delta_px(delta_px,
                              snap_step_of(s.time_size_minutes, s.snap_enabled))
             refs == s._group_move_refs
         IN  IF delta_minutes = s._group_move_last_delta THEN s
             ELSE IF \E r \in refs : r.start + delta_minutes < 0
                                     \/ r.end + delta_minutes > DayMinutes
                  THEN s
             ELSE IF GroupOverlaps(s, delta_minutes) THEN s
             ELSE [s EXCEPT
                    !.event_widgets =
                        [i \in 1..Len(@) |->
                            IF \E r \in refs : r.id = @[i].id
                            THEN LET r == CHOOSE r \in refs : r.id = @[i].id
                                 IN  [@[i] EXCEPT
                                        !.start_min = r.start + delta_minutes,
                                        !.end_min = r.end + delta_minutes]
                            ELSE @[i]],
                    !._group_move_last_delta = delta_minutes]

ResetGroupMove(s) ==
    [s EXCEPT !._group_move_active = FALSE,
              !._group_move_refs = {},
              !._group_move_selected = {},
              !._group_move_last_delta = 0,
              !._group_move_start_global = 0]

(* DayView._finish_group_move *)
_finish_group_move(s) ==
    IF ~s._group_move_active THEN s
    ELSE LET moved == s._group_move_last_delta # 0
             s1 == _refresh_widget_transparency(ResetGroupMove(s))
         IN  IF moved THEN on_day_changed(s1) ELSE s1

(* DayView._cancel_group_move *)
_cancel_group_move(s) ==
    IF ~s._group_move_active THEN s
    ELSE _refresh_widget_transparency(ResetGroupMove(s))

(* DayView._cancel_box_selection *)
_cancel_box_selection(s) ==
    _cancel_group_move([s EXCEPT !._box_selecting = FALSE,
                                 !._box_select_origin = None])

(* DayView.set_box_select_mode *)
set_box_select_mode(s, enabled) ==
    IF s.box_select_mode = enabled THEN s
    ELSE LET s1 == [s EXCEPT !.box_select_mode = enabled]
         IN  IF enabled THEN _refresh_widget_transparency(s1)
             ELSE _refresh_widget_transparency(
                    _update_box_selection(
                        _cancel_box_selection(_cancel_group_move(s1)), {}))

----------------------------------------------------------------------------
(* Pointer handlers of DayView *)

WidgetOf(s, id) == s.event_widgets[IndexOfId(s.event_widgets, id)]

snap_step(s) == snap_step_of(s.time_size_minutes, s.snap_enabled)
snap_minute(s, minute) == snap_minute_with(minute, snap_step(s))

(* The three snap attempts after a creation. *)
FirstChoice(a, b, c) == IF a.has THEN a ELSE IF b.has THEN b ELSE c

SnapCreated(s, id, now) ==
    MoveTo(s, id, FirstChoice(SnapChoice(s, id, TRUE, FALSE, now),
                              SnapChoice(s, id, FALSE, TRUE, now),
                              SnapChoice(s, id, TRUE, TRUE, now)))

(* DayView.mousePressEvent, left button, normal mode, on empty space. *)
Created(s, s1, now) ==
    IF Len(s1.event_widgets) = Len(s.event_widgets) THEN s1
    ELSE on_day_changed(
            IF s.magnetic_mode
            THEN SnapCreated(s1, s1.event_widgets[Len(s1.event_widgets)].id, now)
            ELSE s1)

CreationStart(s, start0, duration) ==
    IF s.magnetic_mode THEN _suggest_start_for_creation(s, start0, duration)
    ELSE start0

(* A creation that adds the block and leaves the commit out. *)
CreateUncommitted(s, y, now) ==
    add_block(s,
              CreationStart(
                s,
                Max(0, Min(snap_minute(s, y_to_minute(y)),
                           Max(0, DayMinutes - Max(1, s.time_size_minutes)))),
                Max(1, s.time_size_minutes)),
              Max(1, s.time_size_minutes), FALSE, 0, FALSE, TRUE)

CreateAt(s, y, now) ==
    Created(s,
            add_block(s,
                      CreationStart(
                        s,
                        Max(0, Min(snap_minute(s, y_to_minute(y)),
                                   Max(0, DayMinutes - Max(1, s.time_size_minutes)))),
                        Max(1, s.time_size_minutes)),
                      Max(1, s.time_size_minutes), FALSE, 0, FALSE, TRUE),
            now)

(* DayView.mousePressEvent, left button, box-select mode. *)
BoxPress(s, y) ==
    LET hit == \E i \in 1..Len(s.event_widgets) :
                   /\ s.event_widgets[i].id \in s._box_selected_widgets
                   /\ GeometryContains(s.event_widgets[i], y)
    IN  IF hit /\ StartsGroupMove(s) THEN _start_group_move(s, y)
        ELSE [s EXCEPT !._box_selecting = TRUE, !._box_select_origin = y]

DayView_mousePressEvent(s, y, now) ==
    [(IF s.box_select_mode THEN BoxPress(s, y) ELSE CreateAt(s, y, now))
        EXCEPT !.mouse_grab = ViewGrab]

DayView_mouseMoveEvent(s, y) ==
    IF s.box_select_mode /\ s._group_move_active
    THEN _update_group_move(s, y)
    ELSE s

(* DayView._apply_box_selection for the rectangle from y0 to y1; the      *)
(* pointer stays in the block column.  childAt skips the widgets that are *)
(* transparent for mouse events.                                          *)
_apply_box_selection(s, y0, y1) ==
    LET lo == Min(y0, y1)
        hi == Max(y0, y1)
        ws == s.event_widgets
        degenerate == hi - lo + 1 < 4
        selection ==
            IF degenerate
            THEN LET under == {i \in 1..Len(ws) :
                                  /\ GeometryContains(ws[i], lo)
                                  /\ ~MouseTransparent(s, ws[i])}
                 IN  IF under = {} THEN {}
                     ELSE {ws[CHOOSE i \in under : \A j \in under : i >= j].id}
            ELSE {ws[i].id : i \in {j \in 1..Len(ws) :
                        /\ lo <= WidgetTop(ws[j]) + WidgetHeight(ws[j]) - 1
                        /\ hi >= WidgetTop(ws[j])}}
    IN  _update_box_selection(s, selection)

DayView_mouseReleaseEvent(s, y) ==
    LET s0 == [s EXCEPT !.mouse_grab = NoGrab]
    IN  IF s.box_select_mode /\ s._group_move_active
        THEN _finish_group_move(s0)
        ELSE IF s.box_select_mode /\ s._box_selecting
        THEN LET origin == IF s._box_select_origin # None
                           THEN s._box_select_origin ELSE y
             IN  _apply_box_selection(_cancel_box_selection(s0), origin, y)
        ELSE s0

----------------------------------------------------------------------------
(* Pointer handlers of EventWidget *)

(* DayView.finalize_single_move *)
finalize_single_move(s, id, orig_start, orig_end) ==
    LET w == WidgetOf(s, id)
        duration == Max(1, w.end_min - w.start_min)
    IN  IF w.start_min = orig_start /\ w.end_min = orig_end
        THEN on_day_changed(s)
        ELSE LET direction == IF w.start_min > orig_start THEN 1
                              ELSE IF w.start_min < orig_start THEN -1 ELSE 0
                 clamped == clamp_start_to_available(
                                s.event_widgets, w.start_min, duration,
                                {id}, direction)
             IN  IF clamped = None
                 THEN on_day_changed(SetWidget(s, id,
                        [w EXCEPT !.start_min = orig_start,
                                  !.end_min = orig_end]))
                 ELSE on_day_changed(SetWidget(s, id,
                        [w EXCEPT !.start_min = clamped,
                                  !.end_min = clamped + duration]))

(* EventWidget.mousePressEvent, left button, outside box-select mode. *)
WidgetPressNormal(s, id, y) ==
    LET w == WidgetOf(s, id)
        ly == y - WidgetTop(w)
        part == IF ly <= HANDLE THEN "resize_top"
                ELSE IF ly >= WidgetHeight(w) - HANDLE THEN "resize_bottom"
                ELSE "move"
        begun(mode) == [w EXCEPT !.drag_mode = mode,
                                 !.press_global_y = y,
                                 !.orig_start = w.start_min,
                                 !.orig_end = w.end_min,
                                 !.orig_duration = Max(1, w.end_min - w.start_min)]
    IN  IF w.locked
        THEN SetWidget(s, id, [w EXCEPT !.drag_mode = "none",
                                        !.orig_start = w.start_min,
                                        !.orig_end = w.end_min])
        ELSE IF s.smart_scale_enabled
        THEN IF part = "move"
             THEN SetWidget(s, id, [w EXCEPT !.drag_mode = "none"])
             ELSE SetWidget(s, id, begun(part))
        ELSE SetWidget(s, id, begun(IF s.magnetic_mode THEN "move" ELSE part))

(* A press handler without the box-select branch. *)
PressIgnoringBoxMode(s, id, y, now) ==
    [WidgetPressNormal(s, id, y) EXCEPT !.mouse_grab = WidgetGrab(id)]

(* EventWidget.mousePressEvent, left button.  In box-select mode a press  *)
(* that starts no group move is ignored and reaches the DayView.          *)
EventWidget_mousePressEvent(s, id, y, now) ==
    IF s.box_select_mode
    THEN IF id \in s._box_selected_widgets /\ StartsGroupMove(s)
         THEN [SetWidget(_start_group_move(s, y), id,
                         [WidgetOf(s, id) EXCEPT !.group_dragging = TRUE])
                 EXCEPT !.mouse_grab = WidgetGrab(id)]
         ELSE DayView_mousePressEvent(s, y, now)
    ELSE [WidgetPressNormal(s, id, y) EXCEPT !.mouse_grab = WidgetGrab(id)]


(* The "move" branch of EventWidget.mouseMoveEvent. *)
Placed(s, id, w, clamped, duration) ==
    SetWidget(s, id, [w EXCEPT !.start_min = clamped,
                               !.end_min = clamped + duration])

MagneticDrag(s1, id, direction, now) ==
    MoveTo(s1, id,
           IF direction >= 0
           THEN FirstChoice(SnapChoice(s1, id, TRUE, FALSE, now), NoBest,
                            SnapChoice(s1, id, TRUE, TRUE, now))
           ELSE FirstChoice(SnapChoice(s1, id, FALSE, TRUE, now), NoBest,
                            SnapChoice(s1, id, TRUE, TRUE, now)))

DragTo(s, id, w, clamped, duration, direction, now) ==
    IF s.smart_scale_enabled \/ clamped = None THEN s
    ELSE IF ~s.magnetic_mode THEN Placed(s, id, w, clamped, duration)
    ELSE MagneticDrag(Placed(s, id, w, clamped, duration), id, direction, now)

DragBy(s, id, w, delta_min, duration, now) ==
    DragTo(s, id, w,
           clamp_start_to_available(s.event_widgets, w.orig_start + delta_min,
                                    duration, {id},
                                    IF delta_min >= 0 THEN 1 ELSE -1),
           duration, IF delta_min >= 0 THEN 1 ELSE -1, now)

WidgetDragMove(s, id, y, now) ==
    DragBy(s, id, WidgetOf(s, id),
           snap_delta_px(y - WidgetOf(s, id).press_global_y, snap_step(s)),
           IF s.magnetic_mode THEN Max(1, WidgetOf(s, id).orig_duration)
           ELSE _base_chunk(s),
           now)

(* The resize branches of EventWidget.mouseMoveEvent without smart scale. *)
PlacedIf(s, id, w, clamped, duration) ==
    IF clamped = None THEN s ELSE Placed(s, id, w, clamped, duration)

ResizeTo(s, id, w, new_start, moved_edge, old_edge, block_size) ==
    PlacedIf(s, id, w,
             clamp_start_to_available(
                s.event_widgets, new_start, block_size, {id},
                IF moved_edge < old_edge THEN -1
                ELSE IF moved_edge > old_edge THEN 1 ELSE 0),
             block_size)

ResizeTopStart(s, snapped, now_candidate) ==
    IF s.magnetic_mode /\ now_candidate.has THEN now_candidate.start
    ELSE snapped

ResizeAt(s, id, w, snapped, top_start, block_size) ==
    IF w.drag_mode = "resize_top"
    THEN ResizeTo(s, id, w, top_start, top_start, w.start_min, block_size)
    ELSE ResizeTo(s, id, w, snapped - block_size, snapped, w.end_min,
                  block_size)

WidgetDragResize(s, id, y, now) ==
    ResizeAt(s, id, WidgetOf(s, id), snap_minute(s, y_to_minute(y)),
             ResizeTopStart(s, snap_minute(s, y_to_minute(y)),
                            _now_line_snap_candidate(
                                s, now, snap_minute(s, y_to_minute(y)),
                                _base_chunk(s), {id})),
             _base_chunk(s))

(* EventWidget.mouseMoveEvent *)
EventWidget_mouseMoveEvent(s, id, y, now) ==
    LET w == WidgetOf(s, id)
    IN  IF s.box_select_mode
        THEN IF w.group_dragging THEN _update_group_move(s, y) ELSE s
        ELSE IF w.drag_mode = "none" THEN s
        ELSE IF w.locked THEN SetWidget(s, id, [w EXCEPT !.drag_mode = "none"])
        ELSE IF w.drag_mode = "move" THEN WidgetDragMove(s, id, y, now)
        ELSE IF s.smart_scale_enabled
        THEN IF w.drag_mode = "resize_top"
             THEN _smart_scale_resize_top(s, id, y_to_minute(y))
             ELSE _smart_scale_resize_bottom(s, id, y_to_minute(y))
        ELSE WidgetDragResize(s, id, y, now)

(* EventWidget.mouseReleaseEvent, left button *)
EventWidget_mouseReleaseEvent(s, id) ==
    LET s0 == [s EXCEPT !.mouse_grab = NoGrab]
        w == WidgetOf(s, id)
        changed == w.start_min # w.orig_start \/ w.end_min # w.orig_end
        idle(t) == IF id \in WidgetIds(t.event_widgets)
                   THEN SetWidget(t, id, [WidgetOf(t, id) EXCEPT
                                            !.drag_mode = "none"])
                   ELSE t
    IN  IF s.box_select_mode
        THEN IF w.group_dragging
             THEN LET t == _finish_group_move(s0)
                  IN  SetWidget(t, id, [WidgetOf(t, id) EXCEPT
                                            !.group_dragging = FALSE])
             ELSE s0
        ELSE IF w.locked THEN idle(s0)
        ELSE IF w.drag_mode = "move"
        THEN idle(finalize_single_move(
                    IF changed THEN note_history_action(s0, "Move block") ELSE s0,
                    id, w.orig_start, w.orig_end))
        ELSE idle(on_day_changed(
                    IF changed THEN note_history_action(s0, "Resize block")
                    ELSE s0))

----------------------------------------------------------------------------
(* Toolbar, shortcuts, history dialog and context menu (MainWindow) *)

(* DayView.set_magnetic_mode / set_smart_scale_enabled write the flag to  *)
(* the view and to the Prefs object the view shares with the window.      *)
set_magnetic_mode(s, enabled) ==
    IF s.magnetic_mode = enabled THEN s
    ELSE [s EXCEPT !.magnetic_mode = enabled, !.prefs_magnetic_mode = enabled]

set_smart_scale_enabled(s, enabled) ==
    IF s.smart_scale_enabled = enabled THEN s
    ELSE [s EXCEPT !.smart_scale_enabled = enabled,
                   !.prefs_smart_scale_enabled = enabled]

on_smart_scale_toggled(s, checked) ==
    LET s1 == [s EXCEPT !.prefs_smart_scale_enabled = checked]
        s2 == IF checked
              THEN set_magnetic_mode([s1 EXCEPT !.prefs_magnetic_mode = FALSE],
                                     FALSE)
              ELSE s1
    IN  set_smart_scale_enabled(s2, checked)

(* Magnetic mode switched with smart scale left as it is. *)
MagneticToggledAlone(s, checked) ==
    set_magnetic_mode([s EXCEPT !.prefs_magnetic_mode = checked], checked)

on_magnetic_toggled(s, checked) ==
    LET s1 == [s EXCEPT !.prefs_magnetic_mode = checked]
        s2 == IF checked
              THEN set_smart_scale_enabled(
                      [s1 EXCEPT !.prefs_smart_scale_enabled = FALSE], FALSE)
              ELSE s1
    IN  set_magnetic_mode(s2, checked)

(* MainWindow.on_time_size_changed -> DayView.set_time_size *)
on_time_size_changed(s, minutes) ==
    [s EXCEPT !.time_size_minutes = Max(1, minutes)]

(* MainWindow.on_snap_toggle -> DayView.set_snap_enabled *)
on_snap_toggle(s, checked) ==
    _refresh_widget_transparency([s EXCEPT !.snap_enabled = checked])

(* Undo without the test for the first entry: the index -1 reads the     *)
(* last entry of a Python list.                                           *)
UndoUnguarded(s) ==
    IF s._history = <<>> THEN s
    ELSE LET idx == s._history_index - 1
             s1 == _apply_history_snapshot(
                        [s EXCEPT !._history_index = idx],
                        s._history[IF idx < 0 THEN Len(s._history)
                                   ELSE idx + 1])
         IN  [s1 EXCEPT !._pending_history_action = ""]

(* MainWindow.perform_undo *)
perform_undo(s) ==
    IF s._history_index <= 0 \/ s._history = <<>> THEN s
    ELSE LET idx == s._history_index - 1
             s1 == _apply_history_snapshot([s EXCEPT !._history_index = idx],
                                           s._history[idx + 1])
         IN  [s1 EXCEPT !._pending_history_action = ""]

(* MainWindow.perform_redo *)
perform_redo(s) ==
    IF s._history = <<>> \/ s._history_index >= Len(s._history) - 1 THEN s
    ELSE LET idx == s._history_index + 1
             s1 == _apply_history_snapshot([s EXCEPT !._history_index = idx],
                                           s._history[idx + 1])
         IN  [s1 EXCEPT !._pending_history_action = ""]

(* A restore that discards the entries after the restored one. *)
RestoreTruncating(s, index) ==
    IF ~(0 <= index /\ index < Len(s._history)) THEN s
    ELSE LET s1 == _apply_history_snapshot(
                        [s EXCEPT !._history_index = index,
                                  !._history = SubSeq(@, 1, index + 1)],
                        s._history[index + 1])
         IN  [s1 EXCEPT !._pending_history_action = ""]

(* MainWindow.restore_history_entry *)
restore_history_entry(s, index) ==
    IF ~(0 <= index /\ index < Len(s._history)) THEN s
    ELSE LET s1 == _apply_history_snapshot([s EXCEPT !._history_index = index],
                                           s._history[index + 1])
         IN  [s1 EXCEPT !._pending_history_action = ""]

(* MainWindow._history_entries_for_dialog: the indexes it lists. *)
_history_entries_for_dialog(s) ==
    {i \in 0..(Len(s._history) - 1) : s._history[i + 1].action # "Initial load"}

(* A clear that keeps the entry at the cursor as the only entry. *)
ClearKeepingCurrent(s) ==
    [s EXCEPT !._history = <<s._history[s._history_index + 1]>>,
              !._history_index = 0,
              !._pending_history_action = ""]

(* MainWindow.clear_history_entries *)
clear_history_entries(s) ==
    _reset_history([s EXCEPT !._history = <<>>, !._history_index = -1,
                             !._pending_history_action = ""])


(* The rules of MainWindow.repeat_rules *)
rule_locked(s, rid) ==
    \E i \in 1..Len(s.repeat_rules) :
        s.repeat_rules[i].id = rid /\ s.repeat_rules[i].locked

set_rule_locked(s, rid, locked) ==
    [s EXCEPT !.repeat_rules =
        [i \in 1..Len(@) |-> IF @[i].id = rid
                             THEN [@[i] EXCEPT !.locked = locked] ELSE @[i]]]

(* MainWindow.delete_daily_rule_with_cleanup *)
delete_daily_rule(s, rid) ==
    [s EXCEPT !.repeat_rules =
        SelectSeq(@, LAMBDA r : ~(r.id = rid /\ ~r.locked))]

(* EventWidget.contextMenuEvent, "Lock" / "Unlock" chosen *)
ContextLock(s, id) ==
    LET w == WidgetOf(s, id)
    IN  IF w.from_rule
        THEN load_day(set_rule_locked(s, w.rule_id, ~rule_locked(s, w.rule_id)),
                      TRUE)
        ELSE on_day_changed(SetWidget(s, id, [w EXCEPT !.locked = ~w.locked]))

(* EventWidget.contextMenuEvent, "Delete" chosen.  The menu greys the     *)
(* entry out for a locked widget; the handler checks again.               *)
ContextDelete(s, id) ==
    LET w == WidgetOf(s, id)
    IN  IF w.locked THEN s
        ELSE IF w.from_rule
        THEN load_day(delete_daily_rule(s, w.rule_id), TRUE)
        ELSE delete_block(s, id)

(* The loops of delete_selected_blocks; order is the order in which the   *)
(* set of selected widgets is iterated.                                   *)
RECURSIVE DeleteRegulars(_, _)
DeleteRegulars(s, order) ==
    IF order = <<>> THEN s
    ELSE DeleteRegulars(delete_block(s, Head(order)), Tail(order))

RECURSIVE DeleteRules(_, _)
DeleteRules(s, rids) ==
    IF rids = {} THEN s
    ELSE LET rid == CHOOSE r \in rids : TRUE
         IN  DeleteRules(delete_daily_rule(s, rid), rids \ {rid})

SelectedWidgets(s) ==
    {s.event_widgets[i] : i \in {j \in 1..Len(s.event_widgets) :
                            s.event_widgets[j].id \in s._box_selected_widgets}}

(* The orders in which a set of ids can be iterated. *)
Orders(ids) ==
    {o \in [1..Cardinality(ids) -> ids] :
        \A i, j \in 1..Cardinality(ids) : i # j => o[i] # o[j]}

(* DayView.delete_selected_blocks *)
delete_selected_blocks(s, order) ==
    LET selected == SelectedWidgets(s)
        s1 == note_history_action(s, "Delete selection")
        from_rules == {w.rule_id : w \in {v \in selected : v.from_rule}}
        s2 == DeleteRegulars(_cancel_group_move(s1), order)
        s3 == IF from_rules # {}
              THEN load_day(DeleteRules(s2, from_rules), TRUE)
              ELSE s2
    IN  IF selected = {} THEN s
        ELSE IF \E w \in selected : w.locked THEN s1
        ELSE _update_box_selection(s3, {})

(* MainWindow.update_now_line *)
update_now_line(s, today) ==
    [s EXCEPT !.show_now_line = (s.current_date = today)]

(* A change of day that keeps the log of the day that was shown. *)
CalendarChangedKeepingLog(s, date, today) ==
    update_now_line(load_day([save_day(s) EXCEPT !.current_date = date], FALSE),
                    today)

(* MainWindow.on_calendar_changed *)
on_calendar_changed(s, date, today) ==
    update_now_line(load_day([save_day(s) EXCEPT !.current_date = date], TRUE),
                    today)


----------------------------------------------------------------------------
(* Construction *)

(* QDate.currentDate(), and the dates the calendar offers. *)
(* last_op after a step that is no handler of a widget and appends       *)
(* nothing to the history.                                                *)
Unrecorded(op) ==
    [op |-> op, id |-> 0, recorded |-> FALSE, branched |-> FALSE]

Today == 1
Dates == {1, 2}

(* The fields as the constructors of DayView and MainWindow leave them,   *)
(* with the defaults of Prefs; events holds today's entries of the events *)
(* file and rules the rules file.                                         *)
Constructed(events, rules) ==
    [event_widgets |-> <<>>,
     time_size_minutes |-> 30,
     snap_enabled |-> TRUE,
     smart_scale_enabled |-> FALSE,
     magnetic_mode |-> FALSE,
     show_now_line |-> FALSE,
     box_select_mode |-> FALSE,
     _box_selecting |-> FALSE,
     _box_select_origin |-> None,
     _box_selected_widgets |-> {},
     _group_move_active |-> FALSE,
     _group_move_start_global |-> 0,
     _group_move_last_delta |-> 0,
     _group_move_refs |-> {},
     _group_move_selected |-> {},
     prefs_magnetic_mode |-> FALSE,
     prefs_smart_scale_enabled |-> FALSE,
     events_by_date |-> [d \in Dates |-> IF d = Today THEN events ELSE <<>>],
     repeat_rules |-> rules,
     current_date |-> Today,
     _history |-> <<>>,
     _history_index |-> -1,
     _pending_history_action |-> "",
     mouse_grab |-> NoGrab,
     last_op |-> Unrecorded("init")]

(* The tail of MainWindow.__init__: load_day, then update_now_line. *)
Started(events, rules) ==
    update_now_line(load_day(Constructed(events, rules), TRUE), Today)

StateIs(s) ==
    /\ event_widgets = s.event_widgets
    /\ time_size_minutes = s.time_size_minutes
    /\ snap_enabled = s.snap_enabled
    /\ smart_scale_enabled = s.smart_scale_enabled
    /\ magnetic_mode = s.magnetic_mode
    /\ show_now_line = s.show_now_line
    /\ box_select_mode = s.box_select_mode
    /\ _box_selecting = s._box_selecting
    /\ _box_select_origin = s._box_select_origin
    /\ _box_selected_widgets = s._box_selected_widgets
    /\ _group_move_active = s._group_move_active
    /\ _group_move_start_global = s._group_move_start_global
    /\ _group_move_last_delta = s._group_move_last_delta
    /\ _group_move_refs = s._group_move_refs
    /\ _group_move_selected = s._group_move_selected
    /\ prefs_magnetic_mode = s.prefs_magnetic_mode
    /\ prefs_smart_scale_enabled = s.prefs_smart_scale_enabled
    /\ events_by_date = s.events_by_date
    /\ repeat_rules = s.repeat_rules
    /\ current_date = s.current_date
    /\ _history = s._history
    /\ _history_index = s._history_index
    /\ _pending_history_action = s._pending_history_action
    /\ mouse_grab = s.mouse_grab
    /\ last_op = s.last_op

NoProbe == [kind |-> "none"]

(* A fresh installation. *)
Init == StateIs(Started(<<>>, <<>>)) /\ probe = NoProbe

----------------------------------------------------------------------------
(* Events.  A pointer event goes to the widget that holds the mouse, or   *)
(* on a press to the topmost widget under the pointer that is not         *)
(* transparent for mouse events, or else to the DayView.  Widgets stack   *)
(* in creation order.                                                     *)

TopmostAt(s, y) ==
    LET ws == s.event_widgets
        under == {i \in 1..Len(ws) : /\ GeometryContains(ws[i], y)
                                     /\ ~MouseTransparent(s, ws[i])}
    IN  IF under = {} THEN 0
        ELSE ws[CHOOSE i \in under : \A j \in under : i >= j].id

(* The handler appended a snapshot to the history log. *)
Recorded(s) ==
    /\ s._history # _history
    /\ s._history[Len(s._history)].action # "Initial load"

(* The handler appended it while the cursor was before the last entry. *)
Branched(s) == Recorded(s) /\ _history_index < Len(_history) - 1

Did(s, op, id) ==
    Commit([s EXCEPT !.last_op = [op |-> op, id |-> id,
                                  recorded |-> Recorded(s),
                                  branched |-> Branched(s)]])

Press(y, now) ==
    /\ mouse_grab = NoGrab
    /\ LET t == TopmostAt(State, y)
       IN  Did(IF t = 0 THEN DayView_mousePressEvent(State, y, now)
               ELSE EventWidget_mousePressEvent(State, t, y, now),
               "press", t)

Move(y, now) ==
    /\ mouse_grab # NoGrab
    /\ Did(IF mouse_grab.kind = "widget"
           THEN EventWidget_mouseMoveEvent(State, mouse_grab.id, y, now)
           ELSE DayView_mouseMoveEvent(State, y),
           "move", mouse_grab.id)

Release(y) ==
    /\ mouse_grab # NoGrab
    /\ Did(IF mouse_grab.kind = "widget"
           THEN EventWidget_mouseReleaseEvent(State, mouse_grab.id)
           ELSE DayView_mouseReleaseEvent(State, y),
           "release", mouse_grab.id)

(* The toolbar and the menus are operated with the mouse, so not while a  *)
(* button is held over the day view.                                      *)
ToggleBoxSelect ==
    /\ mouse_grab = NoGrab
    /\ Did(set_box_select_mode(State, ~box_select_mode), "box_select", 0)

(* The Box Select button toggled from the keyboard while it has focus:    *)
(* the key press reaches the button whether or not a mouse button is held *)
(* over the day view, so the toggle can arrive in the middle of a gesture.*)
ToggleBoxSelectByKey ==
    Did(set_box_select_mode(State, ~box_select_mode), "box_select_key", 0)

ToggleMagnetic ==
    /\ mouse_grab = NoGrab
    /\ Did(on_magnetic_toggled(State, ~magnetic_mode), "magnetic", 0)

ToggleSmartScale ==
    /\ mouse_grab = NoGrab
    /\ Did(on_smart_scale_toggled(State, ~smart_scale_enabled), "smart_scale", 0)

ToggleSnap ==
    /\ mouse_grab = NoGrab
    /\ Did(on_snap_toggle(State, ~snap_enabled), "snap", 0)

SetTimeSize(minutes) ==
    /\ mouse_grab = NoGrab
    /\ minutes # time_size_minutes
    /\ Did(on_time_size_changed(State, minutes), "time_size", 0)

(* Ctrl+Z and Ctrl+Shift+Z are application shortcuts: they also arrive    *)
(* in the middle of a drag.                                               *)
Undo == Did(perform_undo(State), "undo", 0)

Redo == Did(perform_redo(State), "redo", 0)

Restore(index) ==
    /\ mouse_grab = NoGrab
    /\ index \in _history_entries_for_dialog(State)
    /\ Did(restore_history_entry(State, index), "restore", 0)

ClearHistory ==
    /\ mouse_grab = NoGrab
    /\ _history_entries_for_dialog(State) # {}
    /\ Did(clear_history_entries(State), "clear", 0)

MenuTarget(id) ==
    /\ mouse_grab = NoGrab
    /\ id \in WidgetIds(event_widgets)
    /\ ~MouseTransparent(State, WidgetOf(State, id))

LockUnlock(id) ==
    /\ MenuTarget(id)
    /\ Did(ContextLock(State, id), "lock", id)

Delete(id) ==
    /\ MenuTarget(id)
    /\ Did(ContextDelete(State, id), "delete", id)

DeleteSelected(id) ==
    /\ MenuTarget(id)
    /\ id \in _box_selected_widgets
    /\ \E order \in Orders({w.id : w \in {v \in SelectedWidgets(State) :
                                            ~v.from_rule}}) :
          Did(delete_selected_blocks(State, order), "delete_selected", id)

SelectDate(date) ==
    /\ mouse_grab = NoGrab
    /\ date # current_date
    /\ Did(on_calendar_changed(State, date, Today), "date", 0)


----------------------------------------------------------------------------
(* Single-block editing on a fresh installation: creation, move, resize,  *)
(* smart-scale resize, magnetic mode, lock, delete, undo and redo.        *)

MaxBlocks == 2
MaxLog == 4

(* Pointer rows: the top handle, the body and the bottom handle of a      *)
(* 30-minute block at minute 0, and a row inside the next 30 minutes.     *)
PointerYs == {19, 61, 103, 121}
NowMinutes == {40}
TimeSizes == {30, 60}

(* A press on empty space outside box-select mode creates a block. *)
Creates(y) == TopmostAt(State, y) = 0 /\ ~box_select_mode

BlockRoom(y, n) == Creates(y) => Len(event_widgets) < n
LogRoom(n) == Len(_history) < n

Next ==
    \/ \E y \in PointerYs, now \in NowMinutes :
            BlockRoom(y, MaxBlocks) /\ LogRoom(MaxLog) /\ Press(y, now)
    \/ \E y \in PointerYs, now \in NowMinutes : Move(y, now)
    \/ \E y \in PointerYs : LogRoom(MaxLog) /\ Release(y)
    \/ ToggleMagnetic
    \/ ToggleSmartScale
    \/ \E minutes \in TimeSizes : SetTimeSize(minutes)
    \/ Undo
    \/ Redo
    \/ \E id \in 1..MaxBlocks : LogRoom(MaxLog) /\ LockUnlock(id)
    \/ \E id \in 1..MaxBlocks : LogRoom(MaxLog) /\ Delete(id)

Spec == Init /\ [][Next]_vars


----------------------------------------------------------------------------
(* Gestures and delete requests on a day that holds a locked block: the   *)
(* day file has an unlocked block (0, 30) and a locked block (30, 60),    *)
(* and one daily rule contributes the instance (60, 90).                  *)

MaxBlocksLocked == 3
MaxLogLocked == 3

LockedEvents ==
    <<[start_min |-> 0, end_min |-> 30, locked |-> FALSE],
      [start_min |-> 30, end_min |-> 60, locked |-> TRUE]>>
LockedRules ==
    <<[id |-> 1, start_min |-> 60, end_min |-> 90, locked |-> FALSE]>>

InitLocked == StateIs(Started(LockedEvents, LockedRules)) /\ probe = NoProbe

NextLocked ==
    \/ \E y \in PointerYs, now \in NowMinutes :
            /\ BlockRoom(y, MaxBlocksLocked) /\ LogRoom(MaxLogLocked)
            /\ Press(y, now)
    \/ \E y \in PointerYs, now \in NowMinutes : Move(y, now)
    \/ \E y \in PointerYs : LogRoom(MaxLogLocked) /\ Release(y)
    \/ ToggleBoxSelect
    \/ ToggleSmartScale
    \/ \E minutes \in TimeSizes : SetTimeSize(minutes)
    \/ \E id \in 1..MaxBlocksLocked : LogRoom(MaxLogLocked) /\ Delete(id)
    \/ \E id \in 1..MaxBlocksLocked :
            LogRoom(MaxLogLocked) /\ DeleteSelected(id)

SpecLocked == InitLocked /\ [][NextLocked]_vars


----------------------------------------------------------------------------
(* Box-select mode on a day with three blocks: rubber-band selection and  *)
(* group moves, with grid snapping on and off and visits to another day. *)

BoxEvents ==
    <<[start_min |-> 0, end_min |-> 30, locked |-> FALSE],
      [start_min |-> 60, end_min |-> 90, locked |-> FALSE],
      [start_min |-> 120, end_min |-> 150, locked |-> FALSE]>>

InitBox == StateIs(Started(BoxEvents, <<>>)) /\ probe = NoProbe

MaxLogBox == 4

(* Rows above the first block, and 90 pixels (30 minutes) apart below.    *)
BoxYs == {10, 61, 151, 241}

NextBox ==
    \/ ~box_select_mode /\ ToggleBoxSelect
    \/ ToggleSnap
    \/ \E date \in Dates : SelectDate(date)
    \/ \E y \in BoxYs, now \in NowMinutes : box_select_mode /\ Press(y, now)
    \/ \E y \in BoxYs, now \in NowMinutes : Move(y, now)
    \/ \E y \in BoxYs : LogRoom(MaxLogBox) /\ Release(y)

SpecBox == InitBox /\ [][NextBox]_vars

(* The same day with the Box Select button also switched off from the     *)
(* keyboard, at rest or in the middle of a gesture.                       *)
MaxLogCancel == 3

NextCancel ==
    \/ ~box_select_mode /\ ToggleBoxSelect
    \/ box_select_mode /\ ToggleBoxSelectByKey
    \/ \E y \in BoxYs, now \in NowMinutes : box_select_mode /\ Press(y, now)
    \/ \E y \in BoxYs, now \in NowMinutes : Move(y, now)
    \/ \E y \in BoxYs : LogRoom(MaxLogCancel) /\ Release(y)

SpecCancel == InitBox /\ [][NextCancel]_vars

(* The same day with selections among deletes, undo and redo, visits to   *)
(* another day and the Box Select button switched both ways.              *)
MaxLogSelect == 3

(* Above the first block and in the bodies of the first two blocks. *)
SelectYs == {10, 61, 241}

NextSelect ==
    \/ ToggleBoxSelect
    \/ \E date \in Dates \ {Today} : SelectDate(date)
    \/ \E y \in SelectYs, now \in NowMinutes : box_select_mode /\ Press(y, now)
    \/ \E y \in SelectYs, now \in NowMinutes : Move(y, now)
    \/ \E y \in SelectYs : LogRoom(MaxLogSelect) /\ Release(y)
    \/ \E id \in 1..Len(BoxEvents) : LogRoom(MaxLogSelect) /\ Delete(id)
    \/ \E id \in 1..Len(BoxEvents) :
            LogRoom(MaxLogSelect) /\ DeleteSelected(id)
    \/ Undo
    \/ Redo

SpecSelect == InitBox /\ [][NextSelect]_vars


----------------------------------------------------------------------------
(* A day with room for nothing more: a free block, a gap of 15 minutes    *)
(* and a locked block that fills the rest of the day.                     *)

FullEvents ==
    <<[start_min |-> 0, end_min |-> 30, locked |-> FALSE],
      [start_min |-> 45, end_min |-> DayMinutes, locked |-> TRUE]>>

InitFull == StateIs(Started(FullEvents, <<>>)) /\ probe = NoProbe

MaxBlocksFull == 3
MaxLogFull == 3

(* Above the first block, in its body (minutes 15 and 20), in the gap     *)
(* (minute 38) and in the body of the locked block (minute 60).           *)
FullYs == {10, 61, 76, 130, 196}

NextFull ==
    \/ \E y \in FullYs, now \in NowMinutes :
            /\ BlockRoom(y, MaxBlocksFull) /\ LogRoom(MaxLogFull)
            /\ Press(y, now)
    \/ \E y \in FullYs, now \in NowMinutes : Move(y, now)
    \/ \E y \in FullYs : LogRoom(MaxLogFull) /\ Release(y)
    \/ ToggleBoxSelect
    \/ ToggleSnap
    \/ \E id \in 1..MaxBlocksFull : LogRoom(MaxLogFull) /\ Delete(id)
    \/ \E id \in 1..MaxBlocksFull : LogRoom(MaxLogFull) /\ DeleteSelected(id)

SpecFull == InitFull /\ [][NextFull]_vars


----------------------------------------------------------------------------
(* Start-up with any pair of persisted mode flags, then the mode buttons  *)
(* among gestures on an empty day.                                        *)

(* MainWindow.__init__ after Prefs.from_config: magnetic_mode gives way   *)
(* when the file enables both modes.                                      *)
ResolvedMagnetic(smart_scale, magnetic) ==
    IF smart_scale /\ magnetic THEN FALSE ELSE magnetic

(* DayView.__init__ copies the flags of the preferences; __init__ then    *)
(* passes them to set_magnetic_mode and set_smart_scale_enabled.          *)
ConstructedWith(events, rules, smart_scale, magnetic) ==
    set_smart_scale_enabled(
        set_magnetic_mode(
            [Constructed(events, rules) EXCEPT
                !.prefs_smart_scale_enabled = smart_scale,
                !.prefs_magnetic_mode = magnetic,
                !.smart_scale_enabled = smart_scale,
                !.magnetic_mode = magnetic],
            magnetic),
        smart_scale)

StartedWith(events, rules, smart_scale, magnetic) ==
    update_now_line(
        load_day(ConstructedWith(events, rules, smart_scale,
                                 ResolvedMagnetic(smart_scale, magnetic)),
                 TRUE),
        Today)

InitModes ==
    /\ \E smart_scale \in BOOLEAN, magnetic \in BOOLEAN :
            StateIs(StartedWith(<<>>, <<>>, smart_scale, magnetic))
    /\ probe = NoProbe

MaxBlocksModes == 1
MaxLogModes == 3

NextModes ==
    \/ \E y \in PointerYs, now \in NowMinutes :
            /\ BlockRoom(y, MaxBlocksModes) /\ LogRoom(MaxLogModes)
            /\ Press(y, now)
    \/ \E y \in PointerYs, now \in NowMinutes : Move(y, now)
    \/ \E y \in PointerYs : LogRoom(MaxLogModes) /\ Release(y)
    \/ ToggleMagnetic
    \/ ToggleSmartScale
    \/ ToggleSnap
    \/ \E minutes \in TimeSizes : SetTimeSize(minutes)

SpecModes == InitModes /\ [][NextModes]_vars


----------------------------------------------------------------------------
(* Placement: runs of DayView.add_block and of                            *)
(* DayView.clamp_start_to_available on the stores that add_block builds.  *)

(* add_block(start_min, duration_min) with the default arguments. *)
Add(start_min, duration_min) ==
    CommitCall([add_block(State, start_min, duration_min,
                          FALSE, 0, FALSE, TRUE)
                    EXCEPT !.last_op = Unrecorded("add")],
               [kind |-> "add", start |-> start_min,
                duration |-> duration_min])

(* clamp_start_to_available(start, duration, exclude_set, direction). *)
Place(start, duration, excl, direction) ==
    CommitCall([State EXCEPT !.last_op = Unrecorded("place")],
               [kind |-> "place", start |-> start, duration |-> duration,
                exclude |-> excl, direction |-> direction,
                result |-> clamp_start_to_available(event_widgets, start,
                                                    duration, excl,
                                                    direction)])

MaxPlaceBlocks == 3

AddStarts == {0, 480, 490, 1410}
AddDurations == {30, 1440}
PlaceStarts == {0, 470, 490, 520, 1425, 1500}
PlaceDurations == {1, 30, 60, 1440}
Directions == {-1, 0, 1}

(* clamp_start_to_available leaves the store alone, so one run of it per  *)
(* store and argument list shows every result.                            *)
NextPlace ==
    \/ \E start_min \in AddStarts, duration_min \in AddDurations :
            Len(event_widgets) < MaxPlaceBlocks /\ Add(start_min, duration_min)
    \/ \E start \in PlaceStarts, duration \in PlaceDurations,
          excl \in SUBSET WidgetIds(event_widgets), direction \in Directions :
            probe.kind # "place" /\ Place(start, duration, excl, direction)

SpecPlace == Init /\ [][NextPlace]_vars

(* Placement at the end of the day: for every duration, the last start    *)
(* that fits and the start one minute after it, in every direction.       *)
MaxBoundaryBlocks == 2

BoundaryAddStarts == {0, 480, 1410}
BoundaryAddDurations == {30}
BoundaryDurations == 1..DayMinutes

NextBoundary ==
    \/ /\ probe.kind # "place"
       /\ Len(event_widgets) < MaxBoundaryBlocks
       /\ \E start_min \in BoundaryAddStarts,
             duration_min \in BoundaryAddDurations :
                Add(start_min, duration_min)
    \/ /\ probe.kind # "place"
       /\ \E duration \in BoundaryDurations, over \in {0, 1},
             direction \in Directions :
                Place(DayMinutes - duration + over, duration, {}, direction)

SpecBoundary == Init /\ [][NextBoundary]_vars


----------------------------------------------------------------------------
(* Magnetic snapping: runs of DayView.snap_block_to_neighbors on the      *)
(* blocks of the stores that add_block builds, with magnetic mode on and  *)
(* the now line shown.                                                    *)

InitMagnet == StateIs(StartedWith(<<>>, <<>>, FALSE, TRUE)) /\ probe = NoProbe

(* snap_block_to_neighbors(block, allow_start, allow_end) at time now. *)
Snap(id, allow_start, allow_end, now) ==
    /\ id \in WidgetIds(event_widgets)
    /\ CommitCall([snap_block_to_neighbors(State, id, allow_start, allow_end,
                                           now)
                        EXCEPT !.last_op = Unrecorded("magnet")],
                  [kind |-> "magnet", id |-> id, allow_start |-> allow_start,
                   allow_end |-> allow_end, now |-> now,
                   start |-> WidgetOf(State, id).start_min,
                   end |-> WidgetOf(State, id).end_min])

MaxMagnetBlocks == 3

(* Blocks 1, 4, 5 and 10 minutes apart, a block of three minutes, and a   *)
(* block that ends the day.                                               *)
MagnetAddStarts == {0, 31, 35, 75, 1418}
MagnetAddDurations == {3, 30}

(* The call sites pass (True, False), (False, True) and (True, True). *)
MagnetEdges == {<<TRUE, FALSE>>, <<FALSE, TRUE>>, <<TRUE, TRUE>>}

(* Times 5, 13 and 10 minutes from the start of a block; the last leaves  *)
(* less than half an hour of the day.                                     *)
MagnetNows == {40, 88, 1420}

NextMagnet ==
    \/ /\ probe.kind # "magnet"
       /\ Len(event_widgets) < MaxMagnetBlocks
       /\ \E start_min \in MagnetAddStarts, duration_min \in MagnetAddDurations :
                Add(start_min, duration_min)
    \/ /\ probe.kind # "magnet"
       /\ \E id \in 1..MaxMagnetBlocks, edges \in MagnetEdges,
             now \in MagnetNows :
                Snap(id, edges[1], edges[2], now)

SpecMagnet == InitMagnet /\ [][NextMagnet]_vars

(* Magnetic creation: runs of DayView._suggest_start_for_creation around  *)
(* blocks that end at minute 600 or start after it.                       *)

(* _suggest_start_for_creation(start_min, duration) *)
Suggest(start_min, duration) ==
    CommitCall([State EXCEPT !.last_op = Unrecorded("suggest")],
               [kind |-> "suggest", start |-> start_min,
                duration |-> duration,
                result |-> _suggest_start_for_creation(State, start_min,
                                                       duration)])

MaxSuggestBlocks == 3

SuggestAddStarts == {570, 600, 615, 640}
SuggestAddDurations == {5, 30}
SuggestStarts == 585..650
SuggestDurations == {5, 30}

(* Times 8 and 13 minutes below the start of a block. *)
SuggestNows == {608, 653}

NextSuggest ==
    \/ /\ probe.kind \notin {"suggest", "magnet"}
       /\ Len(event_widgets) < MaxSuggestBlocks
       /\ \E start_min \in SuggestAddStarts,
             duration_min \in SuggestAddDurations :
                Add(start_min, duration_min)
    \/ /\ probe.kind \notin {"suggest", "magnet"}
       /\ \E start_min \in SuggestStarts, duration \in SuggestDurations :
                Suggest(start_min, duration)
    \/ /\ probe.kind \notin {"suggest", "magnet"}
       /\ \E id \in 1..MaxSuggestBlocks, edges \in MagnetEdges,
             now \in SuggestNows :
                Snap(id, edges[1], edges[2], now)

SpecSuggest == InitMagnet /\ [][NextSuggest]_vars


----------------------------------------------------------------------------
(* Grid snapping: runs of DayView.snap_minute under the time sizes and    *)
(* snap settings that Prefs.load can hand to the constructor.             *)

(* snap_minute(minute), and snap_minute of what it returned. *)
SnapMinute(minute) ==
    CommitCall([State EXCEPT !.last_op = Unrecorded("snap")],
               [kind |-> "snap", minute |-> minute,
                once |-> snap_minute(State, minute),
                twice |-> snap_minute(State, snap_minute(State, minute))])

MaxSnapStep == 48

(* Time sizes: every one up to MaxSnapStep, and larger ones that do and   *)
(* do not divide the day, up to more than a day.                          *)
SnapSteps == (1..MaxSnapStep) \cup {60, 90, 120, 700, 900, 1000, 1440, 1441, 2000}

(* Minutes as y_to_minute returns them. *)
SnapMinutes == 0..DayMinutes

InitSnap ==
    /\ \E size \in SnapSteps, enabled \in BOOLEAN :
            StateIs([Started(<<>>, <<>>) EXCEPT !.time_size_minutes = size,
                                                !.snap_enabled = enabled])
    /\ probe = NoProbe

NextSnap ==
    \E minute \in SnapMinutes : probe.kind # "snap" /\ SnapMinute(minute)

SpecSnap == InitSnap /\ [][NextSnap]_vars


----------------------------------------------------------------------------
(* The history log: one block is created, locked, unlocked and deleted    *)
(* again and again, with undo, redo and the history dialog.               *)

MaxBlocksHistory == 1

(* The body of a 30-minute block at minute 0. *)
HistoryYs == {61}

NextHistory ==
    \/ \E y \in HistoryYs, now \in NowMinutes :
            BlockRoom(y, MaxBlocksHistory) /\ Press(y, now)
    \/ \E y \in HistoryYs : Release(y)
    \/ \E id \in 1..MaxBlocksHistory : LockUnlock(id)
    \/ \E id \in 1..MaxBlocksHistory : Delete(id)
    \/ Undo
    \/ Redo
    \/ \E index \in 0..(_history_max - 1) : Restore(index)
    \/ ClearHistory

SpecHistory == Init /\ [][NextHistory]_vars


----------------------------------------------------------------------------
(* Properties *)

(* No gesture is in progress: every operation so far has been committed. *)
Committed == mouse_grab = NoGrab

WellFormed(w) == 0 <= w.start_min /\ w.start_min < w.end_min
                 /\ w.end_min <= DayMinutes

NoOverlaps(ws) ==
    \A i, j \in 1..Len(ws) :
        i # j => ~RangesOverlap(ws[i].start_min, ws[i].end_min,
                                ws[j].start_min, ws[j].end_min)

(* C1: between committed operations every interval of the day's store    *)
(* satisfies 0 <= start < end <= 1440 and no two intervals overlap.       *)
C1_StoreInvariant ==
    Committed =>
        /\ \A i \in 1..Len(event_widgets) : WellFormed(event_widgets[i])
        /\ NoOverlaps(event_widgets)


(* The dated intervals of the store, as save_day writes them. *)
DatedIntervals(ws) == {SavedEvents(ws)[i] : i \in 1..Len(SavedEvents(ws))}

SnapshotIntervals(snapshot) ==
    {snapshot.events[i] : i \in 1..Len(snapshot.events)}

(* C2: an undo that immediately follows a recorded mutation leaves the    *)
(* store with exactly the intervals of the snapshot at the previous       *)
(* entry of the log.                                                      *)
C2_UndoRoundTrip ==
    [][(last_op.recorded /\ last_op'.op = "undo" /\ _history_index > 0) =>
            /\ DatedIntervals(event_widgets') =
                    SnapshotIntervals(_history[_history_index])
            /\ Len(SavedEvents(event_widgets')) =
                    Len(_history[_history_index].events)]_vars

(* Pointer gestures and delete requests. *)
Gesture == {"press", "move", "release", "delete", "delete_selected"}

(* The locked interval w is still in the store ws with the same start and *)
(* end, and no drag is in progress on it.                                 *)
Kept(w, ws) ==
    \E i \in 1..Len(ws) :
        /\ ws[i].locked
        /\ ws[i].start_min = w.start_min /\ ws[i].end_min = w.end_min
        /\ ws[i].drag_mode = "none"

(* C5: across every pointer gesture and delete request, an interval that  *)
(* is locked keeps its start and end, stays in the store, and has no drag *)
(* started on it.                                                         *)
C5_LockedKept ==
    [][last_op'.op \in Gesture =>
        \A i \in 1..Len(event_widgets) :
            event_widgets[i].locked =>
                Kept(event_widgets[i], event_widgets')]_vars

(* The same, for gestures and delete requests that start from a store of  *)
(* well-formed, pairwise non-overlapping intervals.                       *)
LockedKeptFromValidStore ==
    [][(/\ last_op'.op \in Gesture
        /\ NoOverlaps(event_widgets)
        /\ \A i \in 1..Len(event_widgets) : WellFormed(event_widgets[i])) =>
        \A i \in 1..Len(event_widgets) :
            event_widgets[i].locked =>
                Kept(event_widgets[i], event_widgets')]_vars

(* A gesture or delete request aimed at a locked interval leaves the      *)
(* history alone.                                                         *)
LockedAttemptUnrecorded ==
    [][(/\ last_op'.op \in Gesture
        /\ last_op'.id \in WidgetIds(event_widgets)
        /\ WidgetOf(State, last_op'.id).locked) =>
        /\ _history' = _history
        /\ _history_index' = _history_index]_vars

(* An interval of the given duration that starts at x lies inside the day *)
(* and overlaps no interval of ws outside excl.                           *)
FreeAt(ws, x, duration, excl) ==
    /\ 0 <= x /\ x <= DayMinutes - duration
    /\ ~overlaps_range(ws, x, x + duration, excl)

(* No start from from to to is free. *)
NoneFree(ws, from, to, duration, excl) ==
    \A x \in from..to : ~FreeAt(ws, x, duration, excl)

(* C6: for durations from 1 to 1440, every store, exclusion set,          *)
(* direction and requested start, clamp_start_to_available returns None   *)
(* or a start s with 0 <= s <= 1440 - duration at which the interval      *)
(* overlaps no interval outside the exclusion set.                        *)
C6_PlaceResultFree ==
    (probe.kind = "place" /\ probe.result # None) =>
        FreeAt(event_widgets, probe.result, probe.duration, probe.exclude)

(* A run that had to leave the requested start and found a free one. *)
C6_Relocated ==
    /\ probe.kind = "place"
    /\ probe.result # None
    /\ probe.result # ClampToDay(probe.start, probe.duration)
    /\ Len(event_widgets) >= 2

(* C8: with direction forward, clamp_start_to_available returns the least *)
(* free start at or after the clamped request, and None only when there   *)
(* is no free start from the clamped request up to 1440 - duration.       *)
C8_ForwardLeast ==
    (probe.kind = "place" /\ probe.direction > 0) =>
        IF probe.result = None
        THEN NoneFree(event_widgets, ClampToDay(probe.start, probe.duration),
                      DayMinutes - probe.duration, probe.duration,
                      probe.exclude)
        ELSE /\ ClampToDay(probe.start, probe.duration) <= probe.result
             /\ FreeAt(event_widgets, probe.result, probe.duration,
                       probe.exclude)
             /\ NoneFree(event_widgets,
                         ClampToDay(probe.start, probe.duration),
                         probe.result - 1, probe.duration, probe.exclude)

(* The store {(480, 510)} and the run place(490, 30, forward) = 510. *)
C8_Scenario ==
    /\ Len(event_widgets) = 1
    /\ event_widgets[1].start_min = 480 /\ event_widgets[1].end_min = 510
    /\ probe = [kind |-> "place", start |-> 490, duration |-> 30,
                exclude |-> {}, direction |-> 1, result |-> 510]

(* C10 as stated: when the requested range of add_block overlaps an       *)
(* interval of the store, nothing is added and the store is unchanged.    *)
C10_AddFailsOnOverlap ==
    [][(/\ probe'.kind = "add"
        /\ overlaps_range(event_widgets, probe'.start,
                          probe'.start + probe'.duration, {})) =>
            event_widgets' = event_widgets]_vars

(* C10: add_block adds the interval at the start that                     *)
(* clamp_start_to_available(start, duration, nearest) returns, which      *)
(* overlaps no interval of the store, and leaves the intervals already    *)
(* there alone; it adds nothing only when that run returns None.          *)
C10_AddRelocates ==
    [][probe'.kind = "add" =>
        IF clamp_start_to_available(event_widgets, probe'.start,
                                    probe'.duration, {}, 0) = None
        THEN event_widgets' = event_widgets
        ELSE /\ Len(event_widgets') = Len(event_widgets) + 1
             /\ SubSeq(event_widgets', 1, Len(event_widgets)) = event_widgets
             /\ event_widgets'[Len(event_widgets')].start_min =
                    clamp_start_to_available(event_widgets, probe'.start,
                                             probe'.duration, {}, 0)
             /\ event_widgets'[Len(event_widgets')].end_min =
                    event_widgets'[Len(event_widgets')].start_min
                        + probe'.duration
             /\ FreeAt(event_widgets,
                       event_widgets'[Len(event_widgets')].start_min,
                       probe'.duration, {})]_vars

(* add_block was asked for a range that overlaps the first interval and   *)
(* added the new interval elsewhere.                                      *)
C10_AddedElsewhere ==
    /\ probe.kind = "add"
    /\ Len(event_widgets) = 2
    /\ RangesOverlap(probe.start, probe.start + probe.duration,
                     event_widgets[1].start_min, event_widgets[1].end_min)
    /\ event_widgets[2].start_min # probe.start
    /\ event_widgets[2].end_min - event_widgets[2].start_min = probe.duration

(* C9: snap_minute is idempotent for every minute of the day and every    *)
(* step from 1 up, steps that do not divide 1440 and the step 1 of        *)
(* disabled snapping included: snapping a snapped minute returns it.      *)
C9_SnapIdempotent ==
    probe.kind = "snap" => probe.twice = probe.once

(* A minute moved to the end of the day by a step that does not divide    *)
(* 1440.                                                                  *)
C9_ClampedOffGrid ==
    /\ probe.kind = "snap"
    /\ DayMinutes % snap_step(State) # 0
    /\ probe.minute # DayMinutes
    /\ probe.once = DayMinutes

(* The entries from the first up to the cursor. *)
UpToCursor == SubSeq(_history, 1, _history_index + 1)

(* The last _history_max entries of a log. *)
Trimmed(log) ==
    IF Len(log) > _history_max
    THEN SubSeq(log, Len(log) - _history_max + 1, Len(log))
    ELSE log

HistoryBounded ==
    /\ Len(_history) <= _history_max
    /\ _history # <<>> =>
            0 <= _history_index /\ _history_index < Len(_history)

(* C3: the history log holds at most 11 entries and, when it is not       *)
(* empty, the cursor is an index into it; an append that makes the log    *)
(* longer than 11 entries drops the oldest ones and lowers the cursor by  *)
(* the number dropped, so that it designates the entry just appended.     *)
C3_HistoryBounded ==
    /\ []HistoryBounded
    /\ [][(last_op'.recorded /\ Len(UpToCursor) + 1 > _history_max) =>
            /\ Len(_history') = _history_max
            /\ SubSeq(_history', 1, _history_max - 1) =
                    SubSeq(UpToCursor,
                           Len(UpToCursor) + 2 - _history_max,
                           Len(UpToCursor))
            /\ _history_index' =
                    _history_index + 1
                        - (Len(UpToCursor) + 1 - _history_max)
            /\ _history_index' = Len(_history') - 1]_vars

(* An append has dropped the oldest entry of a full log. *)
C3_OldestDropped ==
    /\ last_op.recorded
    /\ Len(_history) = _history_max
    /\ _history[1].action # "Initial load"
    /\ _history_index = _history_max - 1

(* C7: a snapshot appended while the cursor is before the last entry,     *)
(* after undo or after a restore from the dialog, replaces exactly the    *)
(* entries after the cursor; afterwards the cursor is at the last entry   *)
(* and redo changes nothing.                                              *)
C7_TruncateOnBranch ==
    [][(last_op'.recorded /\ _history_index < Len(_history) - 1) =>
            /\ _history' =
                    Trimmed(Append(UpToCursor, _history'[Len(_history')]))
            /\ Len(_history') = Min(Len(UpToCursor) + 1, _history_max)
            /\ _history_index' = Len(_history') - 1
            /\ perform_redo(State)' = State']_vars

(* A lock or unlock has appended a snapshot while the cursor was before   *)
(* the last entry.                                                        *)
C7_AppendedBeforeLastEntry ==
    /\ last_op.branched
    /\ last_op.op = "lock"
    /\ Len(_history) >= 3
    /\ _history_index = Len(_history) - 1

(* Every widget that refs names is in ws at its start and end in refs     *)
(* shifted by d, inside the day, and overlaps no widget of ws outside     *)
(* selected.                                                              *)
GroupShifted(ws, refs, selected, d) ==
    \A r \in refs :
        /\ r.id \in WidgetIds(ws)
        /\ ws[IndexOfId(ws, r.id)].start_min = r.start + d
        /\ ws[IndexOfId(ws, r.id)].end_min = r.end + d
        /\ 0 <= r.start + d /\ r.end + d <= DayMinutes
        /\ ~overlaps_range(ws, r.start + d, r.end + d, selected)

SameIntervals(ws1, ws2) ==
    /\ Len(ws1) = Len(ws2)
    /\ \A i \in 1..Len(ws1) :
        /\ ws1[i].id = ws2[i].id
        /\ ws1[i].start_min = ws2[i].start_min
        /\ ws1[i].end_min = ws2[i].end_min

(* C4: after every update step of a group move, either every selected     *)
(* member is at its position at the start of the gesture shifted by one   *)
(* and the same delta (the one the step leaves in _group_move_last_delta),*)
(* inside the day and overlapping no interval outside the selection, or   *)
(* no interval differs from what it was before the step.                  *)
C4_GroupMoveAllOrNothing ==
    [][(last_op'.op = "move" /\ box_select_mode /\ _group_move_active) =>
            \/ GroupShifted(event_widgets', _group_move_refs,
                            _group_move_selected, _group_move_last_delta')
            \/ SameIntervals(event_widgets, event_widgets')]_vars

(* A group of two selected blocks has been moved by an update step. *)
C4_GroupOfTwoMoved ==
    /\ last_op.op = "move"
    /\ _group_move_active
    /\ Cardinality(_group_move_selected) = 2
    /\ Len(event_widgets) = 3
    /\ _group_move_last_delta # 0

(* The widget that holds the mouse is being resized by a handle with      *)
(* smart scale on.                                                        *)
SmartResizing ==
    /\ mouse_grab.kind = "widget"
    /\ mouse_grab.id \in WidgetIds(event_widgets)
    /\ ~box_select_mode
    /\ smart_scale_enabled
    /\ ~WidgetOf(State, mouse_grab.id).locked
    /\ WidgetOf(State, mouse_grab.id).drag_mode \in
            {"resize_top", "resize_bottom"}

(* The resized widget w1, w0 before the step, keeps the edge opposite to  *)
(* the handle where it was at the press, is at least one chunk long, lies *)
(* inside the day and overlaps no other widget of ws.                     *)
SmartResized(w0, w1, ws, chunk) ==
    /\ w0.drag_mode = "resize_top" => w1.end_min = w0.orig_end
    /\ w0.drag_mode = "resize_bottom" => w1.start_min = w0.orig_start
    /\ w1.end_min - w1.start_min >= chunk
    /\ 0 <= w1.start_min /\ w1.end_min <= DayMinutes
    /\ ~overlaps_range(ws, w1.start_min, w1.end_min, {w1.id})

(* C11: after every smart-scale resize step, by the top or the bottom     *)
(* handle, the anchored edge is where it was at the start of the gesture, *)
(* the block is at least one chunk long, lies inside [0, 1440] and        *)
(* overlaps no other interval.                                            *)
C11_SmartScaleStep ==
    [][(last_op'.op = "move" /\ SmartResizing) =>
            SmartResized(WidgetOf(State, mouse_grab.id),
                         event_widgets'[IndexOfId(event_widgets',
                                                  mouse_grab.id)],
                         event_widgets', _base_chunk(State))]_vars

(* Every widget that refs names is in ws at its start and end in refs. *)
AtGestureStart(ws, refs) ==
    \A r \in refs :
        /\ r.id \in WidgetIds(ws)
        /\ ws[IndexOfId(ws, r.id)].start_min = r.start
        /\ ws[IndexOfId(ws, r.id)].end_min = r.end

(* C12: when box-select mode is switched off while a group move is in     *)
(* progress, every member of the group is back at the start and end that  *)
(* were captured when the gesture started.                                *)
C12_CancelRestores ==
    [][(last_op'.op = "box_select_key" /\ _group_move_active) =>
            AtGestureStart(event_widgets', _group_move_refs)]_vars

(* The steps in which an operation fails.  A press on empty space when   *)
(* no start of the day is free for a block of the time size; *)
CreationFailed ==
    /\ last_op'.op = "press" /\ last_op'.id = 0
    /\ ~box_select_mode
    /\ NoneFree(event_widgets, 0, DayMinutes, Max(1, time_size_minutes), {})

(* a release of a moved block for which finalize_single_move finds no     *)
(* place; *)
MoveFailed ==
    /\ last_op'.op = "release"
    /\ mouse_grab.kind = "widget"
    /\ ~box_select_mode
    /\ LET w == WidgetOf(State, mouse_grab.id)
       IN  /\ ~w.locked
           /\ w.drag_mode = "move"
           /\ w.start_min # w.orig_start \/ w.end_min # w.orig_end
           /\ clamp_start_to_available(
                    event_widgets, w.start_min,
                    Max(1, w.end_min - w.start_min), {w.id},
                    IF w.start_min > w.orig_start THEN 1
                    ELSE IF w.start_min < w.orig_start THEN -1 ELSE 0) = None

(* a delete of a locked block, or of a selection with a locked member; *)
DeleteRejected ==
    \/ /\ last_op'.op = "delete"
       /\ WidgetOf(State, last_op'.id).locked
    \/ /\ last_op'.op = "delete_selected"
       /\ \E w \in SelectedWidgets(State) : w.locked

(* a press on a selected block that starts no group move because a member *)
(* of the selection is locked. *)
GroupMoveRejected ==
    /\ last_op'.op = "press"
    /\ box_select_mode
    /\ last_op'.id \in _box_selected_widgets
    /\ \E w \in SelectedWidgets(State) : w.locked

SameStore(ws1, ws2) ==
    /\ SameIntervals(ws1, ws2)
    /\ \A i \in 1..Len(ws1) : ws1[i].locked = ws2[i].locked

SameLog == _history' = _history /\ _history_index' = _history_index

(* The store with the widget that holds the mouse back at the start and   *)
(* end it had when it was pressed.                                        *)
StoreAtPress ==
    [i \in 1..Len(event_widgets) |->
        IF event_widgets[i].id = mouse_grab.id
        THEN [event_widgets[i] EXCEPT !.start_min = event_widgets[i].orig_start,
                                      !.end_min = event_widgets[i].orig_end]
        ELSE event_widgets[i]]

(* C13: a creation with no room, a delete or a group move rejected        *)
(* because of a lock leave every interval, the history entries and the    *)
(* history cursor as they were; a move whose release position cannot be   *)
(* placed leaves the intervals as they were when the block was pressed,   *)
(* and the history entries and cursor as they were.                       *)
C13_FailedOperationChangesNothing ==
    [][/\ (CreationFailed \/ DeleteRejected \/ GroupMoveRejected) =>
            SameStore(event_widgets, event_widgets') /\ SameLog
       /\ MoveFailed =>
            SameStore(StoreAtPress, event_widgets') /\ SameLog]_vars

(* A press on the gap of a full day has just added nothing. *)
C13_CreationRefused ==
    /\ last_op.op = "press" /\ last_op.id = 0
    /\ ~box_select_mode
    /\ mouse_grab = ViewGrab
    /\ NoneFree(event_widgets, 0, DayMinutes, Max(1, time_size_minutes), {})
    /\ \E i \in 1..Len(event_widgets) :
            event_widgets[i].end_min < DayMinutes
            /\ ~overlaps_range(event_widgets, event_widgets[i].end_min,
                               event_widgets[i].end_min + 1, {})

(* C14: after start-up with any persisted flags and after any sequence of *)
(* presses of the Magnetic and Smart Scale buttons, magnetic mode and     *)
(* smart scale are never both on, in the preferences or in the day view.  *)
C14_ModesExclusive ==
    /\ ~(magnetic_mode /\ smart_scale_enabled)
    /\ ~(prefs_magnetic_mode /\ prefs_smart_scale_enabled)

(* Magnetic mode has just been switched on, on a day whose block has been *)
(* resized.                                                               *)
C14_MagneticTookOver ==
    /\ last_op.op = "magnetic"
    /\ magnetic_mode /\ prefs_magnetic_mode
    /\ ~smart_scale_enabled /\ ~prefs_smart_scale_enabled
    /\ Len(event_widgets) = 1
    /\ _history # <<>>
    /\ _history[Len(_history)].action = "Resize block"

(* The intervals of a store with their flags, in whatever order the      *)
(* widgets were built.                                                    *)
StoreOf(ws) ==
    {[start_min |-> ws[i].start_min, end_min |-> ws[i].end_min,
      locked |-> ws[i].locked, from_rule |-> ws[i].from_rule] :
        i \in 1..Len(ws)}

SameStoreAndLog(s, t) ==
    /\ StoreOf(s.event_widgets) = StoreOf(t.event_widgets)
    /\ Len(s.event_widgets) = Len(t.event_widgets)
    /\ s._history = t._history
    /\ s._history_index = t._history_index

(* C15: from every state between gestures whose cursor is past the first  *)
(* entry, undo followed by redo leaves the intervals of the store, the    *)
(* history entries and the cursor as they were.                           *)
C15_UndoRedoIdentity ==
    (mouse_grab = NoGrab /\ _history_index > 0) =>
        SameStoreAndLog(perform_redo(perform_undo(State)), State)

(* The same with every snapshot of the log and the store well formed and  *)
(* free of overlaps.                                                      *)
ValidEvents(es) ==
    /\ \A i \in 1..Len(es) : WellFormed(es[i])
    /\ NoOverlaps(es)

UndoRedoIdentityFromValidSnapshots ==
    (/\ \A i \in 1..Len(_history) : ValidEvents(_history[i].events)
     /\ C1_StoreInvariant) => C15_UndoRedoIdentity

(* C16: an undo with the cursor at the first entry and a redo with the   *)
(* cursor at the last entry leave the store, the history entries and the  *)
(* cursor unchanged.                                                      *)
C16_UndoRedoAtEnds ==
    [][(\/ last_op'.op = "undo" /\ _history_index <= 0
        \/ last_op'.op = "redo" /\ _history_index >= Len(_history) - 1) =>
            /\ event_widgets' = event_widgets
            /\ events_by_date' = events_by_date
            /\ _history' = _history
            /\ _history_index' = _history_index]_vars

(* An undo has been asked for on a log of one entry whose day holds a     *)
(* block.                                                                 *)
C16_NothingToUndo ==
    /\ last_op.op = "undo"
    /\ Len(_history) = 1
    /\ _history_index = 0
    /\ Len(event_widgets) = 1

(* The operations whose handlers end in on_day_changed, and so in         *)
(* _record_history.  On an instance of a repeating rule they change the   *)
(* rule and reload the day, which starts a new log.                       *)
Recording == {"press", "release", "lock", "delete", "delete_selected"}

(* C17: when the day a recording operation saves is equal to the snapshot *)
(* at the cursor, no entry is appended, no entry after the cursor is      *)
(* discarded and the cursor does not move.                                *)
C17_RecordSkipsEqualSnapshot ==
    [][(/\ last_op'.op \in Recording
        /\ _history_index >= 0
        /\ current_date' = current_date
        /\ repeat_rules' = repeat_rules
        /\ events_by_date'[current_date] =
                _history[_history_index + 1].events) =>
            /\ _history' = _history
            /\ _history_index' = _history_index]_vars

(* A block has been pressed and released where it was, with an entry      *)
(* after the cursor in the log.                                           *)
C17_ReleasedInPlace ==
    /\ last_op.op = "release" /\ last_op.id # 0
    /\ ~last_op.recorded
    /\ mouse_grab = NoGrab
    /\ _history_index >= 0
    /\ _history_index < Len(_history) - 1
    /\ events_by_date[current_date] = _history[_history_index + 1].events
    /\ Len(event_widgets) = 1

(* C18: undo, redo and the restore of an entry leave every entry of the *)
(* log as it was; they move the cursor only, to the entry before, to the  *)
(* entry after and to the restored entry.                                 *)
C18_LogKeptByNavigation ==
    [][(last_op'.op \in {"undo", "redo", "restore"}) =>
            /\ _history' = _history
            /\ _history_index' \in 0..(Len(_history) - 1)
            /\ last_op'.op = "undo" =>
                    _history_index' \in {_history_index, _history_index - 1}
            /\ last_op'.op = "redo" =>
                    _history_index' \in {_history_index, _history_index + 1}]_vars

(* An entry has been restored that has two entries after it, and the day  *)
(* shows its snapshot.                                                    *)
C18_RestoredEarlier ==
    /\ last_op.op = "restore"
    /\ _history_index + 2 <= Len(_history) - 1
    /\ events_by_date[current_date] = _history[_history_index + 1].events
    /\ _history[_history_index + 1].events # _history[Len(_history)].events

(* C19: for every duration D from 1 to 1440, the runs                    *)
(* place(1440 - D, D) and place(1441 - D, D) return no start whose end    *)
(* is past minute 1440, and return 1440 - D when no interval of the store *)
(* overlaps the last D minutes of the day.                                *)
C19_PlaceAtDayEnd ==
    (/\ probe.kind = "place"
     /\ probe.start \in {DayMinutes - probe.duration,
                         DayMinutes + 1 - probe.duration}) =>
        /\ probe.result = None
                \/ probe.result + probe.duration <= DayMinutes
        /\ ~overlaps_range(event_widgets, DayMinutes - probe.duration,
                           DayMinutes, probe.exclude) =>
                probe.result = DayMinutes - probe.duration

(* The run place(1411, 30) on a store of two intervals that leave the     *)
(* last half hour free has returned 1410.                                 *)
C19_ClampedToLastStart ==
    /\ probe.kind = "place"
    /\ probe.duration = 30
    /\ probe.start = DayMinutes + 1 - probe.duration
    /\ probe.result = DayMinutes - probe.duration
    /\ Len(event_widgets) = 2

(* The start c_start or the end c_end lines up with the facing edge of a  *)
(* neighbour of block b that is within the snap threshold of b's edge.    *)
NeighbourAligned(ws, b, c_start, c_end, allow_start, allow_end) ==
    \E i \in 1..Len(ws) :
        /\ ws[i].id # b.id
        /\ \/ /\ allow_start
              /\ c_start = ws[i].end_min
              /\ Abs(b.start_min - ws[i].end_min) <= _snap_threshold_minutes
           \/ /\ allow_end
              /\ c_end = ws[i].start_min
              /\ Abs(b.end_min - ws[i].start_min) <= _snap_threshold_minutes

(* The start c_start is on the now line, which is shown and within its    *)
(* threshold of b's start.                                                *)
MarkerAligned(shown, now, b, c_start, allow_start) ==
    /\ allow_start /\ shown
    /\ c_start = now
    /\ Abs(b.start_min - now) <= _minutes_from_pixels(NowThresholdPixels)

SnappedTo(ws, b, a, allow_start, allow_end, shown, now) ==
    /\ a.end_min - a.start_min = b.end_min - b.start_min
    /\ 0 <= a.start_min /\ a.end_min <= DayMinutes
    /\ ~overlaps_range(ws, a.start_min, a.end_min, {b.id})
    /\ \/ NeighbourAligned(ws, b, a.start_min, a.end_min, allow_start,
                           allow_end)
       \/ MarkerAligned(shown, now, b, a.start_min, allow_start)

SnappedOrKept(ws0, ws1, i, p, shown) ==
    /\ Len(ws1) = Len(ws0)
    /\ \A j \in 1..Len(ws0) : j # i => ws1[j] = ws0[j]
    /\ \/ ws1[i] = ws0[i]
       \/ SnappedTo(ws0, ws0[i], ws1[i], p.allow_start, p.allow_end, shown,
                    p.now)

(* C20: a run of snap_block_to_neighbors leaves every other block alone   *)
(* and either leaves the block where it is or moves it, duration kept, to *)
(* a position inside the day that overlaps no other block and has the     *)
(* start on the end of a neighbour, the end on the start of a neighbour,  *)
(* or the start on the now line, the aligned edge having been within the  *)
(* threshold (of the neighbours, or of the now line) of where it lands;   *)
(* so a block with no such position is left unchanged.                    *)
C20_MagneticSnap ==
    [][probe'.kind = "magnet" =>
            SnappedOrKept(event_widgets, event_widgets',
                          IndexOfId(event_widgets, probe'.id), probe',
                          show_now_line)]_vars

(* A block with no neighbour has been moved onto the now line from more  *)
(* than the neighbour threshold away.                                     *)
C20_SnappedToNowLine ==
    /\ probe.kind = "magnet"
    /\ Len(event_widgets) = 1
    /\ event_widgets[1].start_min = probe.now
    /\ event_widgets[1].end_min - event_widgets[1].start_min =
            probe.end - probe.start
    /\ Abs(probe.start - probe.now) > _snap_threshold_minutes

SnappedToNeighbourOrKept(ws0, ws1, i, p) ==
    \/ ws1[i] = ws0[i]
    \/ /\ ws1[i].end_min - ws1[i].start_min =
                ws0[i].end_min - ws0[i].start_min
       /\ 0 <= ws1[i].start_min /\ ws1[i].end_min <= DayMinutes
       /\ ~overlaps_range(ws0, ws1[i].start_min, ws1[i].end_min, {ws0[i].id})
       /\ NeighbourAligned(ws0, ws0[i], ws1[i].start_min, ws1[i].end_min,
                           p.allow_start, p.allow_end)

(* C20 as stated: a run of snap_block_to_neighbors either leaves the      *)
(* block where it is or moves it, duration kept, to a position inside the *)
(* day that overlaps no other block and has an edge on the facing edge of *)
(* a neighbour within the snap threshold; with no such neighbour the      *)
(* block is left unchanged.                                               *)
C20_SnapsToNeighboursOnly ==
    [][probe'.kind = "magnet" =>
            SnappedToNeighbourOrKept(event_widgets, event_widgets',
                                     IndexOfId(event_widgets, probe'.id),
                                     probe')]_vars

(* C21: after every step the selection holds only widgets of the store,  *)
(* and it is empty after a step that changes the day and after a step     *)
(* that switches box-select mode off.                                     *)
C21_SelectionInStore ==
    [][/\ _box_selected_widgets' \subseteq WidgetIds(event_widgets')
       /\ current_date' # current_date => _box_selected_widgets' = {}
       /\ (box_select_mode /\ ~box_select_mode') =>
                _box_selected_widgets' = {}]_vars

(* One of two selected blocks has been deleted and the other is still     *)
(* selected.                                                              *)
C21_SelectedAfterDelete ==
    /\ last_op.op = "delete"
    /\ Cardinality(_box_selected_widgets) = 1
    /\ _box_selected_widgets \subseteq WidgetIds(event_widgets)
    /\ Len(event_widgets) = 2

(* The step releases an unlocked block that was pressed for a move or a   *)
(* resize outside box-select mode.                                        *)
GestureReleased ==
    /\ last_op'.op = "release"
    /\ mouse_grab.kind = "widget"
    /\ mouse_grab.id \in WidgetIds(event_widgets)
    /\ ~box_select_mode
    /\ ~WidgetOf(State, mouse_grab.id).locked
    /\ WidgetOf(State, mouse_grab.id).drag_mode # "none"

(* log1 is log0 cut after the cursor idx0 with one entry appended, which  *)
(* carries the label.                                                     *)
OneAppended(log0, idx0, log1, idx1, label) ==
    /\ idx1 = idx0 + 1
    /\ Len(log1) = idx0 + 2
    /\ SubSeq(log1, 1, idx0 + 1) = SubSeq(log0, 1, idx0 + 1)
    /\ log1[Len(log1)].action = label

GestureRecorded(w, a, log0, idx0, log1, idx1) ==
    IF a.start_min = w.orig_start /\ a.end_min = w.orig_end
    THEN log1 = log0 /\ idx1 = idx0
    ELSE OneAppended(log0, idx0, log1, idx1,
                     IF w.drag_mode = "move" THEN "Move block"
                     ELSE "Resize block")

(* C22: when a block pressed for a move or a resize is released, the log  *)
(* and the cursor are unchanged if the block is at the start and end      *)
(* captured at the press, and otherwise exactly one entry is appended     *)
(* after the cursor, labelled "Move block" or "Resize block".             *)
C22_GestureRecordsChange ==
    [][GestureReleased =>
            GestureRecorded(
                WidgetOf(State, mouse_grab.id),
                event_widgets'[IndexOfId(event_widgets', mouse_grab.id)],
                _history, _history_index, _history', _history_index')]_vars

(* The labels the handler of the step notes itself, from the state the   *)
(* step starts in; every other recording step notes none.                 *)
LabelsNotedBy(op) ==
    IF op = "release"
    THEN IF mouse_grab.kind # "widget" THEN {"Add block"}
         ELSE IF box_select_mode THEN {}
         ELSE {"Move block", "Resize block"}
    ELSE IF op \in {"press", "add"} THEN {"Add block"}
    ELSE IF op = "delete" THEN {"Delete block"}
    ELSE IF op = "delete_selected" THEN {"Delete block", "Delete selection"}
    ELSE {}

NoRuleInterval(es) ==
    \A i \in 1..Len(es) : \A j \in 1..Len(event_widgets) :
        event_widgets[j].from_rule =>
            ~(/\ es[i].start_min = event_widgets[j].start_min
              /\ es[i].end_min = event_widgets[j].end_min)

(* C24: the saved data of the current day and the snapshots of the log    *)
(* hold none of the intervals that the day's rules put on display, and    *)
(* no more intervals than the store has outside its rule instances.       *)
C24_RulesNotSaved ==
    /\ NoRuleInterval(events_by_date[current_date])
    /\ \A i \in 1..Len(_history) :
            _history[i].date = current_date =>
                NoRuleInterval(_history[i].events)
    /\ last_op.recorded =>
            /\ _history[_history_index + 1].events =
                    SavedEvents(event_widgets)
            /\ events_by_date[current_date] = SavedEvents(event_widgets)

(* A change was recorded while a rule instance was on display: the        *)
(* snapshot holds fewer intervals than the store.                         *)
C24_RecordedBesideRule ==
    /\ last_op.recorded
    /\ \E j \in 1..Len(event_widgets) : event_widgets[j].from_rule
    /\ Len(_history[_history_index + 1].events) < Len(event_widgets)
    /\ Len(_history[_history_index + 1].events) > 0

(* The run placed a block with direction "nearest" on a conflict whose    *)
(* forward and backward candidates both lie in the day, both are free and *)
(* both are as far from the requested start.                              *)
NearestTie(ws, start, d, excl, c) ==
    /\ c # 0
    /\ 0 <= ws[c].end_min /\ ws[c].end_min <= DayMinutes - d
    /\ 0 <= ws[c].start_min - d /\ ws[c].start_min - d <= DayMinutes - d
    /\ FirstConflict(ws, ws[c].end_min, d, excl) = 0
    /\ FirstConflict(ws, ws[c].start_min - d, d, excl) = 0
    /\ Abs(ws[c].end_min - start) = Abs(ws[c].start_min - d - start)

PlacedOnTie ==
    /\ probe.kind = "place"
    /\ probe.direction = 0
    /\ NearestTie(event_widgets,
                  ClampToDay(probe.start, Max(1, probe.duration)),
                  Max(1, probe.duration), probe.exclude,
                  FirstConflict(event_widgets,
                                ClampToDay(probe.start, Max(1, probe.duration)),
                                Max(1, probe.duration), probe.exclude))

ForwardOf(ws, start, d, excl) ==
    ws[FirstConflict(ws, start, d, excl)].end_min

(* C25: a "nearest" placement whose forward and backward candidates are   *)
(* both admissible and equally far from the request returns the forward   *)
(* candidate, the end of the conflicting block.                           *)
C25_TieGoesForward ==
    PlacedOnTie =>
        probe.result = ForwardOf(event_widgets,
                                 ClampToDay(probe.start, Max(1, probe.duration)),
                                 Max(1, probe.duration), probe.exclude)

(* cand is a start inside the day at which d minutes overlap no block. *)
Admissible(ws, cand, d, excl) ==
    /\ 0 <= cand /\ cand <= DayMinutes - d
    /\ FirstConflict(ws, cand, d, excl) = 0

(* What a "nearest" placement returns when it discards every candidate   *)
(* that is not admissible and measures from the requested start: down is *)
(* the forward and up the backward candidate of the first conflict.       *)
NearestAdmissible(ws, request, d, excl, down, up, result) ==
    /\ result # None => Admissible(ws, result, d, excl)
    /\ (Admissible(ws, down, d, excl) /\ ~Admissible(ws, up, d, excl)) =>
            result = down
    /\ (Admissible(ws, up, d, excl) /\ ~Admissible(ws, down, d, excl)) =>
            result = up
    /\ (Admissible(ws, up, d, excl) /\ Admissible(ws, down, d, excl)) =>
            /\ result \in {down, up}
            /\ Abs(result - request) <= Abs(down - request)
            /\ Abs(result - request) <= Abs(up - request)

PlacedNearest(ws, start, d, excl, c) ==
    c # 0 => NearestAdmissible(ws, probe.start, d, excl, ws[c].end_min,
                               ws[c].start_min - d, probe.result)

(* C26: a "nearest" placement that meets a conflict never returns a start *)
(* outside [0, 1440 - duration] or one that overlaps a block; of the two  *)
(* candidates it returns the admissible one, and with both admissible the *)
(* one nearer to the requested start.                                     *)
C26_NearestDiscardsInadmissible ==
    (probe.kind = "place" /\ probe.direction = 0) =>
        PlacedNearest(event_widgets,
                      ClampToDay(probe.start, Max(1, probe.duration)),
                      Max(1, probe.duration), probe.exclude,
                      FirstConflict(event_widgets,
                                    ClampToDay(probe.start,
                                               Max(1, probe.duration)),
                                    Max(1, probe.duration), probe.exclude))

(* The multiple of step nearest to minute >= 0, an exact tie going to the *)
(* larger one (away from zero), kept inside the day.                      *)
NearestMultipleTiesAway(minute, step) ==
    Max(0, Min(DayMinutes, ((2 * minute + step) \div (2 * step)) * step))

(* C27: snap_minute returns the multiple of the snap step nearest to the  *)
(* minute, an exact tie rounded away from zero, clamped to [0, 1440].     *)
C27_SnapTiesAwayFromZero ==
    probe.kind = "snap" =>
        probe.once = NearestMultipleTiesAway(probe.minute, snap_step(State))

(* The valid magnetic candidates of block b of d minutes: the starts     *)
(* that put an allowed edge of b on the facing edge of a neighbour within *)
(* the threshold, and the now line when it is shown and within its own    *)
(* threshold, each inside the day and free of overlap, with the distance  *)
(* of the edge from where it would land.                                  *)
MagneticCandidates(ws, b, d, allow_start, allow_end, shown, now) ==
    LET valid(c) == /\ c.start >= 0 /\ c.start + d <= DayMinutes
                    /\ ~overlaps_range(ws, c.start, c.start + d, {b.id})
        below == {[start |-> ws[i].end_min,
                   diff |-> Abs(b.start_min - ws[i].end_min)] :
                        i \in {j \in 1..Len(ws) : ws[j].id # b.id}}
        above == {[start |-> ws[i].start_min - d,
                   diff |-> Abs(b.end_min - ws[i].start_min)] :
                        i \in {j \in 1..Len(ws) : ws[j].id # b.id}}
        marker == {[start |-> now, diff |-> Abs(b.start_min - now)]}
    IN  {c \in below : allow_start /\ c.diff <= _snap_threshold_minutes
                        /\ valid(c)}
        \cup {c \in above : allow_end /\ c.diff <= _snap_threshold_minutes
                             /\ valid(c)}
        \cup {c \in marker : allow_start /\ shown /\ valid(c)
                    /\ c.diff <= _minutes_from_pixels(NowThresholdPixels)}

(* Block b has become a: the candidate of cands with the smallest         *)
(* distance, or b itself when there is no candidate.                      *)
SmallestApplied(cands, b, a, d) ==
    IF cands = {} THEN a = b
    ELSE \E c \in cands :
            /\ a.start_min = c.start /\ a.end_min = c.start + d
            /\ \A c2 \in cands : c.diff <= c2.diff

(* A run of snap_block_to_neighbors moves the block to the valid          *)
(* candidate (neighbour edge or now line) with the smallest distance.     *)
SnapAppliesSmallest ==
    probe'.kind = "magnet" =>
        SmallestApplied(
            MagneticCandidates(
                event_widgets, WidgetOf(State, probe'.id),
                Max(1, probe'.end - probe'.start),
                probe'.allow_start, probe'.allow_end,
                show_now_line, probe'.now),
            WidgetOf(State, probe'.id),
            event_widgets'[IndexOfId(event_widgets, probe'.id)],
            Max(1, probe'.end - probe'.start))

(* The valid candidates of a creation of d minutes requested at start:   *)
(* the neighbour edges within the threshold of the request.               *)
CreationCandidates(ws, start, d) ==
    MagneticCandidates(ws, [id |-> 0, start_min |-> start,
                            end_min |-> start + d],
                       d, TRUE, TRUE, FALSE, 0)

SuggestedSmallest(cands, request, result) ==
    IF cands = {} THEN result = request
    ELSE \E c \in cands :
            result = c.start /\ \A c2 \in cands : c.diff <= c2.diff

(* For a request that lies on free space, _suggest_start_for_creation    *)
(* has returned the valid neighbour edge nearest to the requested start,  *)
(* and the request itself when there is none.                             *)
CreationSnapsToNearestEdge ==
    (/\ probe.kind = "suggest"
     /\ ~overlaps_range(event_widgets, probe.start,
                        probe.start + probe.duration, {})) =>
        SuggestedSmallest(CreationCandidates(event_widgets, probe.start,
                                             probe.duration),
                          probe.start, probe.result)

InvalidAt(ws, w) ==
    \/ w.start_min < 0
    \/ w.end_min > DayMinutes
    \/ overlaps_range(ws, w.start_min, w.end_min, {w.id})

RevertedUncommitted(w, a, log0, log1) ==
    /\ a.start_min = w.orig_start
    /\ a.end_min = w.orig_end
    /\ log1 = log0

(* C29: when a block pressed for a move or a resize is released at a      *)
(* position that overlaps another block or lies outside [0, 1440], the    *)
(* block is back at the start and end captured at the press and the log   *)
(* is unchanged.                                                          *)
C29_InvalidReleaseReverts ==
    [][(GestureReleased
        /\ InvalidAt(event_widgets, WidgetOf(State, mouse_grab.id))) =>
            RevertedUncommitted(
                WidgetOf(State, mouse_grab.id),
                event_widgets'[IndexOfId(event_widgets', mouse_grab.id)],
                _history, _history')]_vars

(* The step releases the pointer while a group move is running. *)
GroupMoveReleased ==
    /\ last_op'.op = "release"
    /\ box_select_mode
    /\ _group_move_active

GroupMoveRecorded(delta, log0, idx0, log1, idx1, label) ==
    IF delta = 0 THEN log1 = log0 /\ idx1 = idx0
    ELSE OneAppended(log0, idx0, log1, idx1, label)

(* C30: the release of a group move whose net delta is not zero appends   *)
(* exactly one entry after the cursor, labelled "Group move"; with a net  *)
(* delta of zero the log and the cursor are unchanged.                    *)
C30_GroupMoveRecordedOnce ==
    [][GroupMoveReleased =>
            GroupMoveRecorded(_group_move_last_delta, _history,
                              _history_index, _history', _history_index',
                              "Group move")]_vars

(* The log is one baseline entry that holds the saved data of the         *)
(* current day, which are the ad-hoc blocks of the store, the cursor is   *)
(* on it, and the history dialog lists nothing.                           *)
ReseededWithBaseline(s) ==
    /\ Len(s._history) = 1
    /\ s._history_index = 0
    /\ s._history[1].action = "Initial load"
    /\ s._history[1].date = s.current_date
    /\ s._history[1].events = s.events_by_date[s.current_date]
    /\ s._history[1].events = SavedEvents(s.event_widgets)
    /\ _history_entries_for_dialog(s) = {}

(* C31: after a clear of the history the log is a single baseline         *)
(* snapshot of the current state, the cursor is 0 and the listing of the  *)
(* history dialog is empty; and after every step no entry of the listing  *)
(* is a baseline entry, while every entry left out of it is one.          *)
C31_ClearReseeds ==
    [][/\ last_op'.op = "clear" => ReseededWithBaseline(State')
       /\ \A i \in 0..(Len(_history') - 1) :
            (i \in _history_entries_for_dialog(State')) <=>
                (_history'[i + 1].action # "Initial load")]_vars

(* The history of a day with a block on it has been cleared. *)
C31_ClearedWithBlock ==
    /\ last_op.op = "clear"
    /\ Len(event_widgets) = 1
    /\ Len(_history) = 1
    /\ Len(_history[1].events) = 1

PointerStep(op) == op \in {"press", "move", "release"}

(* No block is added and no widget enters a drag mode of its own. *)
NoSingleGestureStarted(ws0, ws1) ==
    /\ Len(ws1) = Len(ws0)
    /\ \A i \in 1..Len(ws0) :
            ws1[i].drag_mode \in {"none", ws0[i].drag_mode}

(* The pointer row y lies on a selected block. *)
OnSelectedMember(s, y) ==
    \E i \in 1..Len(s.event_widgets) :
        /\ s.event_widgets[i].id \in s._box_selected_widgets
        /\ GeometryContains(s.event_widgets[i], y)

(* C32: a pointer event that arrives in box-select mode adds no block and *)
(* puts no widget into a move or resize of its own; a group move starts   *)
(* only by a press in box-select mode on a block that is already          *)
(* selected; and outside box-select mode no rubber band and no group move *)
(* is in progress.                                                        *)
C32_ModeGovernsGestures ==
    [][/\ (box_select_mode /\ PointerStep(last_op'.op)) =>
                NoSingleGestureStarted(event_widgets, event_widgets')
       /\ (~_group_move_active /\ _group_move_active') =>
                /\ last_op'.op = "press"
                /\ box_select_mode
                /\ OnSelectedMember(State, _group_move_start_global')
       /\ ~box_select_mode' =>
                ~_box_selecting' /\ ~_group_move_active']_vars

(* A group move has just been started by a press on a selected block. *)
C32_GroupMoveStarted ==
    /\ last_op.op = "press"
    /\ box_select_mode
    /\ _group_move_active
    /\ last_op.id \in _box_selected_widgets
    /\ OnSelectedMember(State, _group_move_start_global)

SelectionHasLocked(s) ==
    \E i \in 1..Len(s.event_widgets) :
        /\ s.event_widgets[i].id \in s._box_selected_widgets
        /\ s.event_widgets[i].locked

SamePositions(ws0, ws1) ==
    /\ Len(ws1) = Len(ws0)
    /\ \A i \in 1..Len(ws0) :
            /\ ws1[i].id = ws0[i].id
            /\ ws1[i].start_min = ws0[i].start_min
            /\ ws1[i].end_min = ws0[i].end_min

(* C33: while a selected block is locked, no pointer event in box-select  *)
(* mode, a press on a selected block included, starts a group move or     *)
(* changes the start or end of any block.                                 *)
C33_LockedSelectionStays ==
    [][(/\ box_select_mode
        /\ PointerStep(last_op'.op)
        /\ SelectionHasLocked(State)) =>
            /\ ~_group_move_active'
            /\ SamePositions(event_widgets, event_widgets')]_vars

(* A selected block was pressed while the selection holds a locked and an *)
(* unlocked block: a rubber band began instead of a group move.           *)
C33_PressedLockedSelection ==
    /\ last_op.op = "press"
    /\ box_select_mode
    /\ SelectionHasLocked(State)
    /\ Cardinality(_box_selected_widgets) = 2
    /\ _box_selecting
    /\ ~_group_move_active
    /\ OnSelectedMember(State, _box_select_origin)

(* ws1 is ws0 with one block of d minutes appended. *)
OneBlockAdded(ws0, ws1, d) ==
    /\ Len(ws1) = Len(ws0) + 1
    /\ \A i \in 1..Len(ws0) : ws1[i] = ws0[i]
    /\ ws1[Len(ws1)].end_min - ws1[Len(ws1)].start_min = d
    /\ ~ws1[Len(ws1)].from_rule

(* The press either added one block of the chunk size and appended one   *)
(* entry labelled "Add block", or changed neither the store nor the log   *)
(* and left no gesture behind.                                            *)
CreatedOrIdle(s0, s1) ==
    \/ /\ OneBlockAdded(s0.event_widgets, s1.event_widgets,
                         Max(1, s0.time_size_minutes))
       /\ OneAppended(s0._history, s0._history_index,
                      s1._history, s1._history_index, "Add block")
       /\ s1._history[Len(s1._history)].events =
                SavedEvents(s1.event_widgets)
    \/ /\ s1.event_widgets = s0.event_widgets
       /\ s1._history = s0._history
       /\ s1._history_index = s0._history_index
       /\ s1.events_by_date = s0.events_by_date
       /\ ~s1._box_selecting /\ ~s1._group_move_active

(* C34: a press on empty space outside box-select mode either adds        *)
(* exactly one block, whose duration is the chunk size also after the     *)
(* magnetic adjustment, and records one "Add block" entry, or, when the   *)
(* placement finds no room, adds nothing and leaves no gesture behind.    *)
C34_CreationAddsOneChunk ==
    [][(last_op'.op = "press" /\ last_op'.id = 0 /\ ~box_select_mode) =>
            CreatedOrIdle(State, State')]_vars

(* In magnetic mode a press has created a block of the chunk size off the *)
(* grid, at the end of its neighbour, and "Add block" was recorded.       *)
C34_CreatedAtNeighbourEdge ==
    /\ last_op.op = "press" /\ last_op.id = 0 /\ last_op.recorded
    /\ magnetic_mode
    /\ Len(event_widgets) >= 2
    /\ _history[_history_index + 1].action = "Add block"
    /\ LET b == event_widgets[Len(event_widgets)]
       IN  /\ b.end_min - b.start_min = Max(1, time_size_minutes)
           /\ b.start_min % Max(1, time_size_minutes) # 0
           /\ \E i \in 1..(Len(event_widgets) - 1) :
                    event_widgets[i].end_min = b.start_min

EventSet(es) == {es[i] : i \in 1..Len(es)}

(* The log of s is one baseline entry for the current day and the cursor  *)
(* is on it.                                                              *)
BaselineOnly(s) ==
    /\ Len(s._history) = 1
    /\ s._history_index = 0
    /\ s._history[1].action = "Initial load"
    /\ s._history[1].date = s.current_date
    /\ s._history[1].events = s.events_by_date[s.current_date]

(* Undo and redo leave the store, the saved data, the log and the cursor  *)
(* of s as they are.                                                      *)
UndoRedoAreNoOps(s) ==
    /\ SameStoreAndLog(perform_undo(s), s)
    /\ SameStoreAndLog(perform_redo(s), s)
    /\ perform_undo(s).events_by_date = s.events_by_date
    /\ perform_redo(s).events_by_date = s.events_by_date

(* The day shown by s0 was saved as its store had it, the data of the     *)
(* other days were left alone, and s1 shows the saved blocks of the day   *)
(* date (well-formed saved blocks that do not overlap are shown as saved).*)
SavedThenLoaded(s0, s1, date) ==
    /\ s1.current_date = date
    /\ s1.events_by_date[s0.current_date] = SavedEvents(s0.event_widgets)
    /\ \A d \in Dates \ {s0.current_date} :
            s1.events_by_date[d] = s0.events_by_date[d]
    /\ Len(SavedEvents(s1.event_widgets)) <= Len(s1.events_by_date[date])
    /\ ValidEvents(s1.events_by_date[date]) =>
            EventSet(SavedEvents(s1.event_widgets)) =
                EventSet(s1.events_by_date[date])

(* C35: a change of day saves the blocks of the day that was shown, then  *)
(* loads the saved blocks of the new day, and leaves a log of exactly one *)
(* baseline entry for the new day with the cursor on it, on which undo    *)
(* and redo change nothing.                                               *)
C35_DaySwitchSavesThenLoads ==
    [][last_op'.op = "date" =>
            /\ SavedThenLoaded(State, State', current_date')
            /\ BaselineOnly(State')
            /\ UndoRedoAreNoOps(State')]_vars

(* The day was left after a group move and has been opened again: it     *)
(* shows the moved block, on a log of one entry.                          *)
C35_ReturnedToEditedDay ==
    /\ last_op.op = "date"
    /\ current_date = Today
    /\ Len(_history) = 1
    /\ Len(event_widgets) = 3
    /\ SavedEvents(event_widgets) # BoxEvents
    /\ EventSet(SavedEvents(event_widgets)) =
            EventSet(events_by_date[Today])

(* The step is a pointer move or the release of an unlocked block that   *)
(* was pressed for a move outside box-select mode.                        *)
SingleMoveStep ==
    /\ last_op'.op \in {"move", "release"}
    /\ mouse_grab.kind = "widget"
    /\ mouse_grab.id \in WidgetIds(event_widgets)
    /\ mouse_grab.id \in WidgetIds(event_widgets')
    /\ ~box_select_mode
    /\ ~WidgetOf(State, mouse_grab.id).locked
    /\ WidgetOf(State, mouse_grab.id).drag_mode = "move"

DurationKept(w, a) ==
    a.end_min - a.start_min = w.orig_end - w.orig_start

(* C36: after every pointer move and after the release of a block that is *)
(* being moved, the block is as long as it was when it was pressed.       *)
C36_MoveKeepsDuration ==
    [][SingleMoveStep =>
            DurationKept(
                WidgetOf(State, mouse_grab.id),
                event_widgets'[IndexOfId(event_widgets', mouse_grab.id)])]_vars

(* Some start inside the day leaves d minutes free of the blocks of ws    *)
(* outside excl.                                                          *)
HasRoom(ws, d, excl) ==
    \E s \in 0..(DayMinutes - d) : FirstConflict(ws, s, d, excl) = 0

(* C37: a "nearest" placement returns None only when no start in          *)
(* [0, 1440 - duration] is free of overlap with the blocks that are not   *)
(* excluded.                                                              *)
C37_NoRoomOnlyWhenFull ==
    (/\ probe.kind = "place"
     /\ probe.direction = 0
     /\ probe.result = None) =>
        ~HasRoom(event_widgets, Max(1, probe.duration), probe.exclude)

Spans(es) == {<<es[i].start_min, es[i].end_min>> : i \in 1..Len(es)}

(* The saved data of the current day and the ad-hoc blocks of the store   *)
(* are the same intervals.                                                *)
ViewMatchesSaved(s) ==
    /\ Spans(s.events_by_date[s.current_date]) =
            Spans(SavedEvents(s.event_widgets))
    /\ Len(s.events_by_date[s.current_date]) =
            Len(SavedEvents(s.event_widgets))

(* The step appended a commit to the log, or it is an undo, a redo or a   *)
(* restore that applied a snapshot.                                       *)
CommittedOrApplied ==
    \/ last_op'.recorded
    \/ last_op'.op \in {"undo", "redo"} /\ _history_index' # _history_index
    \/ last_op'.op = "restore"

(* C38: after every step that records a commit and after every undo, redo *)
(* or restore that applies a snapshot, the saved intervals of the current *)
(* day are the starts and ends of the ad-hoc blocks of the store.         *)
C38_ViewMatchesSavedData ==
    [][CommittedOrApplied => ViewMatchesSaved(State')]_vars

(* C39: while a group move is active every member captured at the start  *)
(* of the gesture is a widget of the store.                               *)
C39_GroupMembersInStore ==
    _group_move_active =>
        /\ \A r \in _group_move_refs : r.id \in WidgetIds(event_widgets)
        /\ _group_move_selected \subseteq WidgetIds(event_widgets)

====
